---------------------------- MODULE Spec2Model ----------------------------
(***************************************************************************)
(* The array-tape BrainFuck++ engine (scoped temporary pointers with a     *)
(* transactional undo log): create_interpreter / build_maps / run and the  *)
(* tape, scope stack and undo log they own; and the linked-list engine of  *)
(* brainfuck.c with its "*" blocks and its "!" command; and the engine of   *)
(* brainfuckpp_interpreter.c with its "(" ")" temporary pointers.  Each    *)
(* engine has its own specification (Spec, ListSpec, ParenSpec) and is     *)
(* idle in the others'.                                                    *)
(*                                                                         *)
(* Code positions, tape indices and stack levels are 0-based as in the C   *)
(* source; arrays are functions over 0..n-1.                               *)
(***************************************************************************)
EXTENDS Integers, Sequences, FiniteSets, TLC

(***************************************************************************)
(* Bounds of the model.  The names written like the C macros are the       *)
(* program's limits scaled down so that the checker reaches them.          *)
(***************************************************************************)
\* longest program enumerated exhaustively over the command alphabet
MaxCodeLen == 3
\* longest source text enumerated exhaustively over TextChars
MaxTextLen == 3
\* longest source of the linked-list engine enumerated exhaustively
MaxCodeTextLen == 3
\* MAX_POINTER_DEPTH of brainfuck.c (100 in the source), scaled
MAX_POINTER_DEPTH == 2
\* MAX_POINTER_STACK_DEPTH of brainfuckpp_interpreter.c (256 in the
\* source), scaled
MAX_POINTER_STACK_DEPTH == 2
\* MAX_BRACKET_STAR_DEPTH of brainfuck.c (500 in the source), scaled
MAX_BRACKET_STAR_DEPTH == 3
\* the nodes malloc has room for
MaxNodes == 3
\* the iterations a run of the linked-list engine is followed for
MaxRunSteps == 600
\* INITIAL_TAPE_SIZE (30000 in the source), scaled
INITIAL_TAPE_SIZE == 4
\* largest block realloc can still deliver for the tape (memory exhaustion)
MaxTapeSize == 16
\* MAX_TEMP_DEPTH (256 in the source), scaled
MAX_TEMP_DEPTH == 3
\* MAX_NESTING_DEPTH (1024 in the source), scaled
MAX_NESTING_DEPTH == 3
\* MAX_INSTRUCTIONS (100000000 in the source), scaled
MAX_INSTRUCTIONS == 24
\* initial undo_log_capacity (16 in the source), scaled
UNDO_LOG_INITIAL_CAPACITY == 2
\* MAX_CODE_SIZE * 4, the undo log's capacity limit (262144 in the source), scaled
UNDO_LOG_CAPACITY_LIMIT == 4
\* SIZE_MAX of the model's size_t (2^64 - 1 in the build), 2^30 - 1
SIZE_MAX == 1073741823

(***************************************************************************)
(* Program constants.                                                      *)
(***************************************************************************)
\* number of values of an unsigned char cell
CellValues == 256
\* stdio's EOF
EOF == -1
\* MAX_CODE_SIZE
MAX_CODE_SIZE == 65536
\* MAX_CODE_SIZE of brainfuck.c
LIST_MAX_CODE_SIZE == 1000000

Byte == 0 .. (CellValues - 1)

Commands == {"+", "-", "<", ">", ".", ",", "[", "]", "{", "}"}

TYPE_BRACKET == "TYPE_BRACKET"
TYPE_BRACE == "TYPE_BRACE"

\* the bytes the input source can deliver
InputBytes == {0, 1, 255}

(***************************************************************************)
(* size_t arithmetic: results are reduced modulo SIZE_MAX + 1.             *)
(***************************************************************************)
SizeT(x) == x % (SIZE_MAX + 1)

(***************************************************************************)
(* Programs.  A program is the filtered code: a sequence of command        *)
(* characters.  code[i] of the source is CodeAt(c, i) == c[i + 1].         *)
(***************************************************************************)
CodeAt(c, i) == c[i + 1]

ShortPrograms == UNION { [1 .. n -> Commands] : n \in 0 .. MaxCodeLen }

LongPrograms ==
  { <<"[", "{", "}", "]">>,
    <<"[", "{", "]", "}">>,
    <<"{", "[", "}", "]">>,
    <<"{", "[", "]", "}">>,
    <<"+", "{", "+", "+", "}">>,
    <<"+", "{", "-", "{", "-", "}", "}">>,
    <<"+", "{", "+", "{", "+", "+", "}", "+", "}", ".">>,
    <<"{", ">", ">", "+", "}", "+">>,
    <<"{", "<", "{", ">", ">", "}", "+", "}", ".">>,
    <<"{", "+", ">", "+", ">", "+", "}">>,
    <<"{", "+", ">", "+", ">", "+", "+", "}">>,
    <<"{", "+", ">", "+", ">", "+", ">", "+", ">", "+", "}">>,
    <<"{", "{", "{", "}", "}", "}">>,
    <<"+", "+", "+", "[", "-", ">", "+", "+", "<", "]", ".", ".">>,
    <<"<", "<", "<", ".">>,
    <<"+", ">", ">", ">", "<", "<", "<", ".">>,
    <<"{", "+", "{", ">", "+", "{", "}", "}", "}">>,
    <<"[", "[", "[", "[", "]", "]", "]", "]">>,
    <<"{", "+", ">", "+", "{", "+", "}", "}">>,
    <<"{", "+", "{", "+", ">", "+", "}", "}">>,
    <<"{", "+", ">", "+", ">", "+", ">", "+", "{", "+", "}", "}">>,
    <<"+", "+", "[", ">", "+", "+", "<", "-", "]">>,
    <<"+", "[", "{", "-", "}", "-", "]", ".">>,
    <<"{", ",", "[", ">", ",", "]", "}">>,
    <<"<", "<", "<", "+", ".">>,
    <<"{", "<", "<", "<", "-", "}">>,
    <<"+", "[", ">", "+", "]">>,
    <<"<", "<", "<", ",", ".">>,
    <<",", ",", ">", ",", ",">>,
    <<"<", "{", ">", ">", "<", "}">> }

Programs == ShortPrograms \cup LongPrograms

(***************************************************************************)
(* Source texts and filter_code.  A source text is the string main reads   *)
(* from the code file: a sequence of characters, commands and others.      *)
(***************************************************************************)
\* COMMENT_CHAR
COMMENT_CHAR == "#"

\* the characters of the short source texts: two commands, the comment
\* character, the newline, a blank and a character that is no command
TextChars == {"+", "]", COMMENT_CHAR, "\n", " ", "x"}

ShortTexts == UNION { [1 .. n -> TextChars] : n \in 0 .. MaxTextLen }

LongTexts ==
  { <<"+", COMMENT_CHAR, "]", "x", "\n", "[", COMMENT_CHAR, "\n", "]">>,
    <<COMMENT_CHAR, "+", COMMENT_CHAR, "\n", " ", "+", "\t", ".", "*">>,
    <<"+", " ", COMMENT_CHAR, " ", "{", "\n", "\n", ">", "}">> }

\* what create_interpreter can be given: programs without anything to
\* filter, and texts with comments, blanks and other characters
Sources == Programs \cup ShortTexts \cup LongTexts

\* is_command_char(c)
IsCommandChar(c) == c \in Commands

\* isspace(c) in the C locale
IsSpace(c) == c \in {" ", "\t", "\n", "\f", "\r"}

\* KeepsCommand with the comment state ignored
KeepsOutsideAndInside(in_comment, c) == ~IsSpace(c) /\ IsCommandChar(c)

\* whether the loop of filter_code copies the character c
KeepsCommand(in_comment, c) ==
  ~in_comment /\ c # COMMENT_CHAR /\ ~IsSpace(c) /\ IsCommandChar(c)

\* in_comment after the character c
InCommentAfter(in_comment, c) ==
  IF in_comment THEN c # "\n" ELSE c = COMMENT_CHAR

\* the loop of filter_code from input[i] on; i counts from 0
RECURSIVE FilterFrom(_, _, _, _)
FilterFrom(input, i, in_comment, filtered) ==
  IF i >= Len(input) THEN filtered
  ELSE FilterFrom(input, i + 1, InCommentAfter(in_comment, input[i + 1]),
                  IF KeepsCommand(in_comment, input[i + 1])
                  THEN Append(filtered, input[i + 1])
                  ELSE filtered)

\* filter_code(input)
FilterCode(input) == FilterFrom(input, 0, FALSE, <<>>)


(***************************************************************************)
(* The tape: [cells, size, zero_offset]; cells is the backing array, a     *)
(* function over the physical indices 0 .. size-1.                         *)
(***************************************************************************)
\* init_tape with the offset left at the start of the array
InitTapeAtStart(initial_size) ==
  [ cells       |-> [p \in 0 .. (initial_size - 1) |-> 0],
    size        |-> initial_size,
    zero_offset |-> 0 ]

\* init_tape, after a successful calloc
InitTape(initial_size) ==
  [ cells       |-> [p \in 0 .. (initial_size - 1) |-> 0],
    size        |-> initial_size,
    zero_offset |-> initial_size \div 2 ]

\* the expression tape.zero_offset + logical_index of run, in size_t
PhysicalIndex(tape, index) == SizeT(tape.zero_offset + index)

\* whether a physical index designates an element of the backing array
InArray(tape, p) == 0 <= p /\ p < tape.size

\* required_physical_index as first computed by ensure_tape_capacity;
\* -1 stands for the overflow error return of the positive branch
RequiredPhysicalIndex(tape, index) ==
  IF index >= 0
  THEN IF tape.zero_offset > SIZE_MAX - index THEN -1
       ELSE tape.zero_offset + index
  ELSE IF tape.zero_offset < -index THEN 0
       ELSE tape.zero_offset - (-index)

\* shift_amount for a candidate new_size
ShiftAmount(tape, index, new_size) ==
  IF index < 0 /\ tape.zero_offset < -index
  THEN SizeT((-index) - tape.zero_offset + (new_size \div 2))
  ELSE 0

\* the condition of the doubling loop
MustDouble(tape, required, new_size, shift_amount) ==
  \/ required >= SizeT(new_size - shift_amount)
  \/ new_size < SizeT(tape.size + shift_amount)

\* the doubling loop that settles new_size and shift_amount
RECURSIVE NewSizeLoop(_, _, _, _)
NewSizeLoop(tape, index, required, new_size) ==
  IF MustDouble(tape, required, new_size, ShiftAmount(tape, index, new_size))
  THEN IF new_size > SIZE_MAX \div 2
       THEN [ ok |-> FALSE, new_size |-> new_size,
              shift_amount |-> ShiftAmount(tape, index, new_size) ]
       ELSE NewSizeLoop(tape, index, required, new_size * 2)
  ELSE [ ok |-> TRUE, new_size |-> new_size,
         shift_amount |-> ShiftAmount(tape, index, new_size) ]

\* realloc of the tape to new_size bytes: it delivers the block when the
\* allocator can (alloc_ok) and the block fits the available memory
TapeReallocOk(new_size, alloc_ok) == alloc_ok /\ new_size <= MaxTapeSize

\* the backing array after the left-growth branch (memmove + two memsets)
ShiftedCells(tape, new_size, shift_amount) ==
  [p \in 0 .. (new_size - 1) |->
     IF p >= shift_amount /\ p < shift_amount + tape.size
     THEN tape.cells[p - shift_amount]
     ELSE 0]

\* the right-growth branch without its memset: the added cells hold what
\* realloc left there
ExtendedCellsUnset(tape, new_size) ==
  [p \in 0 .. (new_size - 1) |-> IF p < tape.size THEN tape.cells[p] ELSE 1]

\* the backing array after the right-growth branch (memset of the new part)
ExtendedCells(tape, new_size) ==
  [p \in 0 .. (new_size - 1) |-> IF p < tape.size THEN tape.cells[p] ELSE 0]

\* whether the left-growth branch (memmove) is taken
Moves(old_size, new_size, shift_amount) ==
  shift_amount > 0 /\ shift_amount < new_size /\ old_size < new_size

\* the tape once realloc has succeeded and the content is laid out
Resized(tape, new_size, shift_amount) ==
  [ cells       |-> IF Moves(tape.size, new_size, shift_amount)
                    THEN ShiftedCells(tape, new_size, shift_amount)
                    ELSE IF new_size > tape.size
                         THEN ExtendedCells(tape, new_size)
                         ELSE tape.cells,
    size        |-> new_size,
    zero_offset |-> IF Moves(tape.size, new_size, shift_amount)
                    THEN tape.zero_offset + shift_amount
                    ELSE tape.zero_offset ]

\* the recalculation and the final check after the expansion
CheckExpanded(t2, index) ==
  IF index >= 0
  THEN IF t2.zero_offset + index >= t2.size
       THEN [ret |-> -1, tape |-> t2] ELSE [ret |-> 0, tape |-> t2]
  ELSE IF t2.zero_offset < -index
       THEN [ret |-> -1, tape |-> t2]
       ELSE IF t2.zero_offset - (-index) >= t2.size
            THEN [ret |-> -1, tape |-> t2] ELSE [ret |-> 0, tape |-> t2]

\* the expansion once the loop has settled new_size and shift_amount
ExpandTo(tape, index, grown, alloc_ok) ==
  IF ~grown.ok THEN [ret |-> -1, tape |-> tape]
  ELSE IF ~TapeReallocOk(grown.new_size, alloc_ok) THEN [ret |-> -1, tape |-> tape]
  ELSE IF /\ Moves(tape.size, grown.new_size, grown.shift_amount)
          /\ grown.shift_amount + tape.size > grown.new_size
       THEN [ret |-> -1, tape |-> tape]
  ELSE CheckExpanded(Resized(tape, grown.new_size, grown.shift_amount), index)

\* the expansion branch of ensure_tape_capacity (required >= size)
ExpandTape(tape, index, required, alloc_ok) ==
  ExpandTo(tape, index,
           NewSizeLoop(tape, index, required,
                       IF tape.size = 0 THEN INITIAL_TAPE_SIZE ELSE tape.size),
           alloc_ok)

\* the branches with the bound test one cell early: the last cell of the
\* array counts as outside
EnsureRequiredEarly(tape, index, required, alloc_ok) ==
  IF required = -1 THEN [ret |-> -1, tape |-> tape]
  ELSE IF required >= tape.size - 1
       THEN ExpandTape(tape, index, required, alloc_ok)
  ELSE [ret |-> 0, tape |-> tape]

\* the branches of ensure_tape_capacity on required_physical_index
EnsureRequired(tape, index, required, alloc_ok) ==
  IF required = -1 THEN [ret |-> -1, tape |-> tape]
  ELSE IF required >= tape.size THEN ExpandTape(tape, index, required, alloc_ok)
  ELSE [ret |-> 0, tape |-> tape]

\* ensure_tape_capacity(tape, index): [ret, tape]
EnsureTapeCapacity(tape, index, alloc_ok) ==
  EnsureRequired(tape, index, RequiredPhysicalIndex(tape, index), alloc_ok)

\* whether the call would reach realloc, so that its outcome matters
NeedsExpansion(tape, index) ==
  /\ RequiredPhysicalIndex(tape, index) # -1
  /\ RequiredPhysicalIndex(tape, index) >= tape.size

(***************************************************************************)
(* build_maps: one left-to-right scan with one stack of (position, type).  *)
(* The result carries the return value, both maps as the scan left them,   *)
(* and the position the error message reports (-1 on success).             *)
(***************************************************************************)
\* the maps as create_interpreter initialises them: all -1
UnsetMap(c) == [i \in 0 .. (Len(c) - 1) |-> -1]

BuildResult(ret, bmap, cmap, pos, fail_at) ==
  [ ret |-> ret, bracket_map |-> bmap, brace_map |-> cmap,
    error_position |-> pos, failed_at |-> fail_at ]

\* whether an opener may still be pushed: ++stack_top >= MAX_NESTING_DEPTH fails
CanPush(map_stack) == Len(map_stack) < MAX_NESTING_DEPTH

\* TopMatches with the type of the opener not compared
TopMatchesAny(map_stack, t) == TRUE

\* whether the closer of type t matches the top of the stack
TopMatches(map_stack, t) == map_stack[Len(map_stack)].type = t

\* RecordPair with the opener's entry left unset
RecordCloserOnly(map, open_pos, i) == [map EXCEPT ![i] = open_pos]

\* the map with the pair (open_pos, i) recorded in both directions
RecordPair(map, open_pos, i) == [map EXCEPT ![i] = open_pos, ![open_pos] = i]

RECURSIVE BuildMapsFrom(_, _, _, _, _)
BuildMapsFrom(c, i, map_stack, bmap, cmap) ==
  IF i >= Len(c)
  THEN IF map_stack # <<>>
       THEN BuildResult(-1, bmap, cmap, map_stack[Len(map_stack)].position, Len(c))
       ELSE BuildResult(0, bmap, cmap, -1, -1)
  ELSE
    LET ch == CodeAt(c, i)
        open_pos == map_stack[Len(map_stack)].position
        popped == SubSeq(map_stack, 1, Len(map_stack) - 1)
    IN
    CASE ch = "[" ->
           IF ~CanPush(map_stack) THEN BuildResult(-1, bmap, cmap, i, i)
           ELSE BuildMapsFrom(c, i + 1,
                  Append(map_stack, [position |-> i, type |-> TYPE_BRACKET]),
                  bmap, cmap)
      [] ch = "{" ->
           IF ~CanPush(map_stack) THEN BuildResult(-1, bmap, cmap, i, i)
           ELSE BuildMapsFrom(c, i + 1,
                  Append(map_stack, [position |-> i, type |-> TYPE_BRACE]),
                  bmap, cmap)
      [] ch = "]" ->
           IF map_stack = <<>> THEN BuildResult(-1, bmap, cmap, i, i)
           ELSE IF ~TopMatches(map_stack, TYPE_BRACKET)
                THEN BuildResult(-1, bmap, cmap, i, i)
           ELSE BuildMapsFrom(c, i + 1, popped, RecordPair(bmap, open_pos, i), cmap)
      [] ch = "}" ->
           IF map_stack = <<>> THEN BuildResult(-1, bmap, cmap, i, i)
           ELSE IF ~TopMatches(map_stack, TYPE_BRACE)
                THEN BuildResult(-1, bmap, cmap, i, i)
           ELSE BuildMapsFrom(c, i + 1, popped, bmap, RecordPair(cmap, open_pos, i))
      [] OTHER -> BuildMapsFrom(c, i + 1, map_stack, bmap, cmap)

\* build_maps(interp) on the maps create_interpreter has just set to -1
BuildMaps(c) == BuildMapsFrom(c, 0, <<>>, UnsetMap(c), UnsetMap(c))

(***************************************************************************)
(* The undo log: a sequence of [logical_index, original_value,             *)
(* stack_level]; undo_log_count is its length.                             *)
(***************************************************************************)
\* a byte read through cells[p]: the array element, or whatever lies at an
\* address outside the array (wild)
ReadCell(tape, p, wild) == IF InArray(tape, p) THEN tape.cells[p] ELSE wild

\* a byte written through cells[p]: a store outside the array does not
\* reach the array
WriteCell(tape, p, v) ==
  IF InArray(tape, p) THEN [tape EXCEPT !.cells[p] = v] ELSE tape

\* the scan of log_undo_entry: an entry of the cell at the current level or above
AlreadyLogged(undo_log, logical_index, top) ==
  \E k \in 1 .. Len(undo_log) :
     /\ undo_log[k].logical_index = logical_index
     /\ undo_log[k].stack_level >= top

\* the capacity log_undo_entry asks realloc for
NewLogCapacity(capacity) ==
  IF capacity = 0 THEN UNDO_LOG_INITIAL_CAPACITY ELSE capacity * 2

\* whether log_undo_entry reaches its realloc
LogNeedsRealloc(undo_log, capacity, logical_index, top) ==
  /\ top # 0
  /\ ~AlreadyLogged(undo_log, logical_index, top)
  /\ Len(undo_log) >= capacity
  /\ NewLogCapacity(capacity) <= UNDO_LOG_CAPACITY_LIMIT

\* the end of log_undo_entry: e is what its ensure_tape_capacity call
\* returned, cap2 the capacity after the realloc, if any
AppendUndoEntry(e, undo_log, cap2, top, logical_index, wild) ==
  IF e.ret # 0 THEN [tape |-> e.tape, undo_log |-> undo_log, capacity |-> cap2]
  ELSE [ tape     |-> e.tape,
         undo_log |-> Append(undo_log,
                        [ logical_index  |-> logical_index,
                          original_value |->
                            ReadCell(e.tape, PhysicalIndex(e.tape, logical_index), wild),
                          stack_level    |-> top ]),
         capacity |-> cap2 ]

\* log_undo_entry(interp, logical_index): the tape, the log and its capacity
\* afterwards.  The function returns void: its callers cannot tell a
\* recorded entry from an early return.
LogUndoEntry(tape, undo_log, capacity, top, logical_index, alloc_ok, wild) ==
  IF top = 0
  THEN [tape |-> tape, undo_log |-> undo_log, capacity |-> capacity]
  ELSE IF AlreadyLogged(undo_log, logical_index, top)
  THEN [tape |-> tape, undo_log |-> undo_log, capacity |-> capacity]
  ELSE IF Len(undo_log) >= capacity
          /\ NewLogCapacity(capacity) > UNDO_LOG_CAPACITY_LIMIT
  THEN [tape |-> tape, undo_log |-> undo_log, capacity |-> capacity]
  ELSE IF Len(undo_log) >= capacity /\ ~alloc_ok
  THEN [tape |-> tape, undo_log |-> undo_log, capacity |-> capacity]
  ELSE AppendUndoEntry(EnsureTapeCapacity(tape, logical_index, alloc_ok),
                       undo_log,
                       IF Len(undo_log) >= capacity
                       THEN NewLogCapacity(capacity) ELSE capacity,
                       top, logical_index, wild)

\* the store of one popped entry: cells[physical_index] = entry.original_value
StoreBack(t, entry) ==
  WriteCell(t, PhysicalIndex(t, entry.logical_index), entry.original_value)

\* RestoreUndoEntries with an "if" in place of the "while": only the newest
\* entry is popped
RestoreNewestOnly(tape, undo_log, target_level) ==
  IF Len(undo_log) > 0 /\ undo_log[Len(undo_log)].stack_level = target_level
  THEN [ tape     |-> StoreBack(tape, undo_log[Len(undo_log)]),
         undo_log |-> SubSeq(undo_log, 1, Len(undo_log) - 1) ]
  ELSE [tape |-> tape, undo_log |-> undo_log]

\* restore_undo_entries(interp): pops the newest entries while they carry
\* the current level, storing each original value back
RECURSIVE RestoreUndoEntries(_, _, _)
\* one round of its loop: e is what ensure_tape_capacity returned for the
\* newest entry
RestoreEntry(e, undo_log, target_level) ==
  IF e.ret # 0
  THEN [tape |-> e.tape, undo_log |-> undo_log]
  ELSE RestoreUndoEntries(StoreBack(e.tape, undo_log[Len(undo_log)]),
                          SubSeq(undo_log, 1, Len(undo_log) - 1),
                          target_level)

RestoreUndoEntries(tape, undo_log, target_level) ==
  IF Len(undo_log) > 0 /\ undo_log[Len(undo_log)].stack_level = target_level
  THEN RestoreEntry(
         EnsureTapeCapacity(tape, undo_log[Len(undo_log)].logical_index, TRUE),
         undo_log, target_level)
  ELSE [tape |-> tape, undo_log |-> undo_log]

\* whether restore_undo_entries stores through an address outside the array
RECURSIVE RestoreLeavesArray(_, _, _)
RestoreLeavesArray(tape, undo_log, target_level) ==
  IF Len(undo_log) > 0 /\ undo_log[Len(undo_log)].stack_level = target_level
  THEN \/ ~InArray(tape, PhysicalIndex(tape, undo_log[Len(undo_log)].logical_index))
       \/ RestoreLeavesArray(tape, SubSeq(undo_log, 1, Len(undo_log) - 1), target_level)
  ELSE FALSE

(***************************************************************************)
(* The interpreter.                                                        *)
(*   code, bracket_map, brace_map, tape, pointer_stack, pointer_stack_top, *)
(*   undo_log, undo_log_capacity   the fields of struct Interpreter        *)
(*   ip, instruction_count         the locals of run                       *)
(*   pc        "create" (main is about to call create_interpreter),        *)
(*             "created" (it returned an interpreter), "run" (inside the   *)
(*             loop of run), "exit" (main has the outcome)                 *)
(*   status    the outcome: "none" while running, "ok" for run's return 0, *)
(*             otherwise the failure                                       *)
(*   output    the bytes written to the output stream                      *)
(*   in_count  the number of bytes taken from the input stream             *)
(*   eof       whether the input stream has reported end of input          *)
(* History, for stating properties:                                        *)
(*   scopes    one record per open scope: the tape and position at its     *)
(*             "{", the value each cell had before its first mutation in   *)
(*             that scope, and the cells mutated in scopes nested in it    *)
(*   consumed  what fgetc has returned so far, call by call               *)
(*   moves     per level of the pointer stack, the ">" and "<" executed   *)
(*             with success since the level was entered                   *)
(*   last      the instruction executed last: its command, the state it    *)
(*             started from, the indices ensure_tape_capacity accepted     *)
(***************************************************************************)
VARIABLES source, code, bracket_map, brace_map, tape, pointer_stack,
          pointer_stack_top, undo_log, undo_log_capacity, ip,
          instruction_count, pc, status, output, in_count, eof, scopes, last,
          consumed, moves

\* the linked-list engine (brainfuck.c): the ExecutionState of
\* execute_code with its maps, the list of nodes, what getchar returned
\* and putchar was given, and the position of main; as history the last
\* iteration with the machine it started from, and the node at which each
\* open "*" block was entered
VARIABLES state, memory, io, list_pc, list_last, blocks

\* the parenthesis engine (brainfuckpp_interpreter.c): the text given to
\* create_interpreter, the Interpreter it builds (code, maps, pointer
\* stack), the locals of run, the list of nodes, what fgetc returned and
\* fputc was given; as history the last iteration with the state it started
\* from, and for each open "(" the state it was executed in
VARIABLES paren_source, interp, frame, nodes, paren_io, paren_pc,
          paren_status, paren_last, open_parens

paren_vars == << paren_source, interp, frame, nodes, paren_io, paren_pc,
                 paren_status, paren_last, open_parens >>

list_vars == << state, memory, io, list_pc, list_last, blocks >>

array_vars == << source, code, bracket_map, brace_map, tape, pointer_stack,
           pointer_stack_top, undo_log, undo_log_capacity, ip,
           instruction_count, pc, status, output, in_count, eof, scopes, last,
           consumed, moves >>

vars == << array_vars, list_vars, paren_vars >>

\* a tape that is not allocated (before init_tape, after free_tape)
NoTape == [cells |-> <<>>, size |-> 0, zero_offset |-> 0]

\* current_ptr->index
Index == pointer_stack[pointer_stack_top]

\* no move counted yet
NoMoves == [right |-> 0, left |-> 0]

\* the counts m once cmd has moved the pointer of level top
Moved(m, top, cmd) ==
  IF cmd = ">" THEN [m EXCEPT ![top].right = @ + 1]
  ELSE [m EXCEPT ![top].left = @ + 1]

NoScope == [tape |-> NoTape, index |-> 0, first |-> <<>>, nested |-> {}]

\* the record kept of an executed instruction
Executed(cmd, ensured, closed) ==
  [ cmd               |-> cmd,
    ensured           |-> ensured,
    closed            |-> closed,
    tape              |-> tape,
    undo_log          |-> undo_log,
    pointer_stack     |-> pointer_stack,
    pointer_stack_top |-> pointer_stack_top,
    index             |-> Index,
    scopes            |-> scopes,
    ip                |-> ip,
    output            |-> output,
    in_count          |-> in_count ]

NothingExecuted ==
  [ cmd               |-> "none",
    ensured           |-> {},
    closed            |-> NoScope,
    tape              |-> NoTape,
    undo_log          |-> <<>>,
    pointer_stack     |-> <<>>,
    pointer_stack_top |-> 0,
    index             |-> 0,
    scopes            |-> <<>>,
    ip                |-> 0,
    output            |-> <<>>,
    in_count          |-> 0 ]

\* the outcomes of an allocation whose result the code tests
AllocChoices(needed) == IF needed THEN BOOLEAN ELSE {TRUE}

\* what an access outside the array can do: end the process, or go through
\* with a load delivering any byte
WildChoices(needed) ==
  IF needed THEN [crash : BOOLEAN, val : Byte]
  ELSE {[crash |-> FALSE, val |-> 0]}

\* the linked-list engine is not run
ListEngineIdle ==
  /\ state = <<>>
  /\ memory = <<>>
  /\ io = <<>>
  /\ list_pc = "idle"
  /\ list_last = <<>>
  /\ blocks = <<>>

\* the parenthesis engine is not run
ParenEngineIdle ==
  /\ paren_source = <<>>
  /\ interp = <<>>
  /\ frame = <<>>
  /\ nodes = <<>>
  /\ paren_io = <<>>
  /\ paren_pc = "idle"
  /\ paren_status = "none"
  /\ paren_last = <<>>
  /\ open_parens = <<>>

\* the array engine is not run
ArrayEngineIdle ==
  /\ source = <<>>
  /\ code = <<>>
  /\ bracket_map = <<>>
  /\ brace_map = <<>>
  /\ tape = NoTape
  /\ pointer_stack = <<>>
  /\ pointer_stack_top = 0
  /\ undo_log = <<>>
  /\ undo_log_capacity = 0
  /\ ip = 0
  /\ instruction_count = 0
  /\ pc = "idle"
  /\ status = "none"
  /\ output = <<>>
  /\ in_count = 0
  /\ consumed = <<>>
  /\ moves = <<>>
  /\ eof = FALSE
  /\ scopes = <<>>
  /\ last = NothingExecuted

Init ==
  /\ ListEngineIdle
  /\ ParenEngineIdle
  /\ source \in Sources
  /\ code = <<>>
  /\ bracket_map = <<>>
  /\ brace_map = <<>>
  /\ tape = NoTape
  /\ pointer_stack = [l \in 0 .. (MAX_TEMP_DEPTH - 1) |-> 0]
  /\ pointer_stack_top = 0
  /\ undo_log = <<>>
  /\ undo_log_capacity = 0
  /\ ip = 0
  /\ instruction_count = 0
  /\ pc = "create"
  /\ status = "none"
  /\ output = <<>>
  /\ in_count = 0
  /\ consumed = <<>>
  /\ moves = [l \in 0 .. (MAX_TEMP_DEPTH - 1) |-> NoMoves]
  /\ eof = FALSE
  /\ scopes = <<>>
  /\ last = NothingExecuted

(***************************************************************************)
(* create_interpreter and main's call of run.                              *)
(***************************************************************************)
\* InterpreterReturned with the result of build_maps ignored
InterpreterReturnedAlways(built) == TRUE

\* whether create_interpreter hands an interpreter to main after build_maps
InterpreterReturned(built) == built.ret = 0

\* create_interpreter once its allocations and build_maps are done
CreateWith(alloc_ok, filtered, built) ==
       IF ~alloc_ok \/ Len(filtered) > MAX_CODE_SIZE
       THEN /\ pc' = "exit"
            /\ status' = "create_failed"
            /\ UNCHANGED << bracket_map, brace_map, tape, undo_log_capacity >>
       ELSE IF ~InterpreterReturned(built)
       THEN /\ pc' = "exit"
            /\ status' = "rejected"
            /\ UNCHANGED << bracket_map, brace_map, tape, undo_log_capacity >>
       ELSE /\ pc' = "created"
            /\ status' = "none"
            /\ bracket_map' = built.bracket_map
            /\ brace_map' = built.brace_map
            /\ tape' = InitTape(INITIAL_TAPE_SIZE)
            /\ undo_log_capacity' = UNDO_LOG_INITIAL_CAPACITY

\* create_interpreter(code, input, output)
CreateInterpreter ==
  /\ pc = "create"
  /\ code' = FilterCode(source)
  /\ \E alloc_ok \in BOOLEAN :
       CreateWith(alloc_ok, FilterCode(source), BuildMaps(FilterCode(source)))
  /\ UNCHANGED << source, pointer_stack, pointer_stack_top, undo_log, ip,
                  instruction_count, output, in_count, eof, scopes, last,
                  consumed, moves, list_vars,
                  paren_vars >>

\* main: if (interp) run_status = run(interp); the prologue of run
RunEnter ==
  /\ pc = "created"
  /\ pc' = "run"
  /\ pointer_stack_top' = 0
  /\ pointer_stack' = [pointer_stack EXCEPT ![0] = 0]
  /\ ip' = 0
  /\ instruction_count' = 0
  /\ UNCHANGED << source, code, bracket_map, brace_map, tape, undo_log,
                  undo_log_capacity, status, output, in_count, eof, scopes,
                  last, consumed, moves, list_vars,
                  paren_vars >>

(***************************************************************************)
(* run: one action per command of the dispatch loop.  Each action is one   *)
(* iteration: the fetch, instruction_count++, the case, and ip++.          *)
(***************************************************************************)
\* Fetch with the instruction budget left out of the loop condition
FetchUnbounded(cmd) ==
  /\ pc = "run"
  /\ ip < Len(code)
  /\ CodeAt(code, ip) = cmd

\* the loop condition of run together with the fetch of the command
Fetch(cmd) ==
  /\ pc = "run"
  /\ ip < Len(code)
  /\ instruction_count < MAX_INSTRUCTIONS
  /\ CodeAt(code, ip) = cmd

\* the fields an iteration can change, as they are before it
Now ==
  [ tape              |-> tape,
    pointer_stack     |-> pointer_stack,
    pointer_stack_top |-> pointer_stack_top,
    undo_log          |-> undo_log,
    undo_log_capacity |-> undo_log_capacity,
    ip                |-> ip,
    pc                |-> pc,
    status            |-> status,
    output            |-> output,
    in_count          |-> in_count,
    consumed          |-> consumed,
    moves             |-> moves,
    eof               |-> eof,
    scopes            |-> scopes ]

\* the iteration ends in the state r, having executed cmd
Iterate(r, cmd, ensured, closed) ==
  /\ tape' = r.tape
  /\ pointer_stack' = r.pointer_stack
  /\ pointer_stack_top' = r.pointer_stack_top
  /\ undo_log' = r.undo_log
  /\ undo_log_capacity' = r.undo_log_capacity
  /\ ip' = r.ip
  /\ pc' = r.pc
  /\ status' = r.status
  /\ output' = r.output
  /\ in_count' = r.in_count
  /\ consumed' = r.consumed
  /\ moves' = r.moves
  /\ eof' = r.eof
  /\ scopes' = r.scopes
  /\ instruction_count' = instruction_count + 1
  /\ last' = Executed(cmd, ensured, closed)
  /\ UNCHANGED << source, code, bracket_map, brace_map, list_vars,
                  paren_vars >>

\* "return -1" from inside the loop, for the reason given
Return(r, reason) == [r EXCEPT !.pc = "exit", !.status = reason]

\* the process is ended by an access outside the array
Crash(r) == [r EXCEPT !.pc = "exit", !.status = "crash"]

\* MoveTo with the new index stored in the root pointer instead of the
\* current one
MoveRootPointer(cmd, next_logical_index, e) ==
  IF e.ret # 0
  THEN Iterate(Return([Now EXCEPT !.tape = e.tape], "capacity"), cmd, {}, NoScope)
  ELSE Iterate([Now EXCEPT !.tape = e.tape,
                           !.pointer_stack[0] = next_logical_index,
                           !.moves = Moved(moves, pointer_stack_top, cmd),
                           !.ip = ip + 1],
               cmd, {next_logical_index}, NoScope)

\* the end of case '>' and '<': e is what ensure_tape_capacity returned
MoveTo(cmd, next_logical_index, e) ==
  IF e.ret # 0
  THEN Iterate(Return([Now EXCEPT !.tape = e.tape], "capacity"), cmd, {}, NoScope)
  ELSE Iterate([Now EXCEPT !.tape = e.tape,
                           !.pointer_stack[pointer_stack_top] = next_logical_index,
                           !.moves = Moved(moves, pointer_stack_top, cmd),
                           !.ip = ip + 1],
               cmd, {next_logical_index}, NoScope)

\* case '>'
CmdRight ==
  /\ Fetch(">")
  /\ \E alloc_ok \in AllocChoices(NeedsExpansion(tape, Index + 1)) :
       MoveTo(">", Index + 1, EnsureTapeCapacity(tape, Index + 1, alloc_ok))

\* case '<'
CmdLeft ==
  /\ Fetch("<")
  /\ \E alloc_ok \in AllocChoices(NeedsExpansion(tape, Index - 1)) :
       MoveTo("<", Index - 1, EnsureTapeCapacity(tape, Index - 1, alloc_ok))

\* the value '+', '-' and ',' store over old
NewValue(cmd, old, input_char) ==
  CASE cmd = "+" -> (old + 1) % CellValues
    [] cmd = "-" -> (old + CellValues - 1) % CellValues
    [] cmd = "," -> IF input_char = EOF THEN 0 ELSE input_char

\* the history of a scope once the cell at index, holding old, is mutated in it
NoteFirst(scope, index, old) ==
  IF index \in DOMAIN scope.first THEN scope
  ELSE [scope EXCEPT !.first = (index :> old) @@ scope.first]

\* the store of case '+', '-' and ',': lg is what log_undo_entry left, p the
\* physical index, old the byte the cell held when the case began
Store(cmd, input_char, r0, lg, p, old, w) ==
  Iterate([r0 EXCEPT
             !.tape = WriteCell(lg.tape, p,
                        NewValue(cmd, ReadCell(lg.tape, p, w.val), input_char)),
             !.undo_log = lg.undo_log,
             !.undo_log_capacity = lg.capacity,
             !.ip = ip + 1,
             !.scopes = IF pointer_stack_top = 0 THEN scopes
                        ELSE [scopes EXCEPT ![pointer_stack_top] =
                                NoteFirst(@, Index, old)]],
          cmd, {Index}, NoScope)

\* case '+', '-' and ',' after a successful ensure_tape_capacity:
\* log_undo_entry, then the store through cells[p]
LogAndStore(cmd, input_char, r0, t, p) ==
  \E log_ok \in AllocChoices(LogNeedsRealloc(undo_log, undo_log_capacity,
                                             Index, pointer_stack_top)),
     w \in WildChoices(~InArray(t, p)) :
    IF w.crash
    THEN Iterate(Crash([r0 EXCEPT !.tape = t]), cmd, {Index}, NoScope)
    ELSE Store(cmd, input_char, r0,
               LogUndoEntry(t, undo_log, undo_log_capacity, pointer_stack_top,
                            Index, log_ok, w.val),
               p, ReadCell(t, p, w.val), w)

\* the common body of case '+', '-' and ',': e is what ensure_tape_capacity
\* returned for the current index
Mutation(cmd, input_char, r0, e) ==
  IF e.ret # 0
  THEN Iterate(Return([Now EXCEPT !.tape = e.tape], "capacity"), cmd, {}, NoScope)
  ELSE LogAndStore(cmd, input_char, r0, e.tape, PhysicalIndex(e.tape, Index))

\* case '+'
CmdPlus ==
  /\ Fetch("+")
  /\ \E tape_ok \in AllocChoices(NeedsExpansion(tape, Index)) :
       Mutation("+", EOF, Now, EnsureTapeCapacity(tape, Index, tape_ok))

\* case '-'
CmdMinus ==
  /\ Fetch("-")
  /\ \E tape_ok \in AllocChoices(NeedsExpansion(tape, Index)) :
       Mutation("-", EOF, Now, EnsureTapeCapacity(tape, Index, tape_ok))

\* case ',': fgetc delivers a byte, or EOF (and EOF again once it has)
CmdComma ==
  /\ Fetch(",")
  /\ \E input_char \in (IF eof THEN {EOF} ELSE InputBytes \cup {EOF}),
        tape_ok \in AllocChoices(NeedsExpansion(tape, Index)) :
       Mutation(",", input_char,
                [Now EXCEPT !.eof = (input_char = EOF),
                            !.consumed = Append(consumed, input_char),
                            !.in_count = IF input_char = EOF THEN in_count
                                         ELSE in_count + 1],
                EnsureTapeCapacity(tape, Index, tape_ok))

\* case '.' after a successful ensure_tape_capacity: fputc delivers the
\* byte, or reports EOF
Output(t, p) ==
  \E w \in WildChoices(~InArray(t, p)), write_ok \in BOOLEAN :
    IF w.crash
    THEN Iterate(Crash([Now EXCEPT !.tape = t]), ".", {Index}, NoScope)
    ELSE IF ~write_ok
    THEN Iterate(Return([Now EXCEPT !.tape = t], "write"), ".", {Index}, NoScope)
    ELSE Iterate([Now EXCEPT !.tape = t,
                             !.output = Append(output, ReadCell(t, p, w.val)),
                             !.ip = ip + 1],
                 ".", {Index}, NoScope)

\* the body of case '.': e is what ensure_tape_capacity returned
Dot(e) ==
  IF e.ret # 0
  THEN Iterate(Return([Now EXCEPT !.tape = e.tape], "capacity"), ".", {}, NoScope)
  ELSE Output(e.tape, PhysicalIndex(e.tape, Index))

\* case '.'
CmdDot ==
  /\ Fetch(".")
  /\ \E alloc_ok \in AllocChoices(NeedsExpansion(tape, Index)) :
       Dot(EnsureTapeCapacity(tape, Index, alloc_ok))

\* OpenBracketJumps with the test inverted
OpenBracketJumpsNonZero(val) == val # 0

\* whether '[' takes its jump on the tested byte
OpenBracketJumps(val) == val = 0

\* whether ']' takes its jump on the tested byte
CloseBracketJumps(val) == val # 0

\* whether the bracket cmd takes its jump on the tested byte
Jumps(cmd, val) ==
  IF cmd = "[" THEN OpenBracketJumps(val) ELSE CloseBracketJumps(val)

\* AfterJump without the loop's ip++
AtJumpTarget(jump_target) == jump_target

\* ip after a taken jump: ip = jump_target, then the loop's ip++
AfterJump(jump_target) == jump_target + 1

\* case '[' and ']' after a successful ensure_tape_capacity: the test of
\* cells[p], and the jump or the fall through
TestAndJump(cmd, t, p) ==
  \E w \in WildChoices(~InArray(t, p)) :
    IF w.crash
    THEN Iterate(Crash([Now EXCEPT !.tape = t]), cmd, {Index}, NoScope)
    ELSE IF Jumps(cmd, ReadCell(t, p, w.val)) /\ bracket_map[ip] = -1
    THEN Iterate(Return([Now EXCEPT !.tape = t], "invalid_jump"), cmd,
                 {Index}, NoScope)
    ELSE Iterate([Now EXCEPT !.tape = t,
                             !.ip = IF Jumps(cmd, ReadCell(t, p, w.val))
                                    THEN AfterJump(bracket_map[ip])
                                    ELSE ip + 1],
                 cmd, {Index}, NoScope)

\* the common body of case '[' and ']': e is what ensure_tape_capacity returned
Bracket(cmd, e) ==
  IF e.ret # 0
  THEN Iterate(Return([Now EXCEPT !.tape = e.tape], "capacity"), cmd, {}, NoScope)
  ELSE TestAndJump(cmd, e.tape, PhysicalIndex(e.tape, Index))

\* case '['
CmdOpenBracket ==
  /\ Fetch("[")
  /\ \E alloc_ok \in AllocChoices(NeedsExpansion(tape, Index)) :
       Bracket("[", EnsureTapeCapacity(tape, Index, alloc_ok))

\* case ']'
CmdCloseBracket ==
  /\ Fetch("]")
  /\ \E alloc_ok \in AllocChoices(NeedsExpansion(tape, Index)) :
       Bracket("]", EnsureTapeCapacity(tape, Index, alloc_ok))

\* PointerStackFull with the test left out
PointerStackNeverFull(top) == FALSE

\* whether '{' finds the pointer stack full
PointerStackFull(top) == top + 1 >= MAX_TEMP_DEPTH

\* PushPointer with the new pointer left at the origin
PushOrigin(stack, top, current_logical_index) ==
  [stack EXCEPT ![top + 1] = 0]

\* the pointer stack once '{' has stored the current index in the new top
PushPointer(stack, top, current_logical_index) ==
  [stack EXCEPT ![top + 1] = current_logical_index]

\* case '{'
CmdOpenBrace ==
  /\ Fetch("{")
  /\ IF PointerStackFull(pointer_stack_top)
     THEN Iterate(Return(Now, "pointer_stack_overflow"), "{", {}, NoScope)
     ELSE Iterate([Now EXCEPT
                     !.pointer_stack_top = pointer_stack_top + 1,
                     !.pointer_stack = PushPointer(pointer_stack,
                                                   pointer_stack_top, Index),
                     !.ip = ip + 1,
                     !.moves = [moves EXCEPT ![pointer_stack_top + 1] = NoMoves],
                     !.scopes = Append(scopes, [ tape   |-> tape,
                                                 index  |-> Index,
                                                 first  |-> <<>>,
                                                 nested |-> {} ])],
                  "{", {}, NoScope)

\* the indices of the entries restore_undo_entries pops at target_level
RECURSIVE RestoredIndices(_, _)
RestoredIndices(log, target_level) ==
  IF Len(log) > 0 /\ log[Len(log)].stack_level = target_level
  THEN {log[Len(log)].logical_index}
         \cup RestoredIndices(SubSeq(log, 1, Len(log) - 1), target_level)
  ELSE {}

\* the history of the open scopes once the innermost has closed: the
\* enclosing scope notes the cells that were mutated inside it
ScopesAfterClose(sc) ==
  IF Len(sc) <= 1 THEN <<>>
  ELSE [ SubSeq(sc, 1, Len(sc) - 1) EXCEPT ![Len(sc) - 1].nested =
           @ \cup (DOMAIN sc[Len(sc)].first) \cup sc[Len(sc)].nested ]

\* the end of case '}': rs is what restore_undo_entries left
PopScope(rs) ==
  Iterate([Now EXCEPT
             !.tape = rs.tape,
             !.undo_log = rs.undo_log,
             !.pointer_stack_top = pointer_stack_top - 1,
             !.ip = ip + 1,
             !.scopes = ScopesAfterClose(scopes)],
          "}", RestoredIndices(undo_log, pointer_stack_top),
          scopes[Len(scopes)])

\* case '}'
CmdCloseBrace ==
  /\ Fetch("}")
  /\ IF pointer_stack_top = 0
     THEN Iterate(Return(Now, "pointer_stack_underflow"), "}", {}, NoScope)
     ELSE
       \E w \in WildChoices(RestoreLeavesArray(tape, undo_log, pointer_stack_top)) :
         IF w.crash
         THEN Iterate(Crash(Now), "}", {}, NoScope)
         ELSE PopScope(RestoreUndoEntries(tape, undo_log, pointer_stack_top))

\* the cleanup loop after the dispatch loop: restore and pop down to the root
RECURSIVE CleanupScopes(_, _)
CleanupScopes(rs, top) ==
  IF top > 0
  THEN CleanupScopes(RestoreUndoEntries(rs.tape, rs.undo_log, top), top - 1)
  ELSE [tape |-> rs.tape, undo_log |-> rs.undo_log, pointer_stack_top |-> top]

\* whether the cleanup loop stores through an address outside the array
RECURSIVE CleanupLeavesArray(_, _)
CleanupLeavesArray(rs, top) ==
  IF top > 0
  THEN \/ RestoreLeavesArray(rs.tape, rs.undo_log, top)
       \/ CleanupLeavesArray(RestoreUndoEntries(rs.tape, rs.undo_log, top), top - 1)
  ELSE FALSE

\* whether run gives up on the instruction budget after the loop
LimitReached(count) == count >= MAX_INSTRUCTIONS

\* "return 0" after the cleanup loop, which left c
ReturnSuccess(c) ==
  /\ status' = "ok"
  /\ tape' = c.tape
  /\ undo_log' = c.undo_log
  /\ pointer_stack_top' = c.pointer_stack_top

\* the end of run: the loop condition is false
RunExit ==
  /\ pc = "run"
  /\ ~(ip < Len(code) /\ instruction_count < MAX_INSTRUCTIONS)
  /\ pc' = "exit"
  /\ IF LimitReached(instruction_count)
     THEN /\ status' = "limit"
          /\ UNCHANGED << tape, undo_log, pointer_stack_top >>
     ELSE \E w \in WildChoices(CleanupLeavesArray(
                      [tape |-> tape, undo_log |-> undo_log], pointer_stack_top)) :
            IF w.crash
            THEN /\ status' = "crash"
                 /\ UNCHANGED << tape, undo_log, pointer_stack_top >>
            ELSE ReturnSuccess(CleanupScopes(
                   [tape |-> tape, undo_log |-> undo_log], pointer_stack_top))
  /\ last' = Executed("exit", {}, NoScope)
  /\ UNCHANGED << source, code, bracket_map, brace_map, pointer_stack,
                  undo_log_capacity, ip, instruction_count, output,
                  in_count, eof, scopes, consumed, moves, list_vars,
                  paren_vars >>

Next ==
  \/ CreateInterpreter
  \/ RunEnter
  \/ CmdRight
  \/ CmdLeft
  \/ CmdPlus
  \/ CmdMinus
  \/ CmdDot
  \/ CmdComma
  \/ CmdOpenBracket
  \/ CmdCloseBracket
  \/ CmdOpenBrace
  \/ CmdCloseBrace
  \/ RunExit

Spec == Init /\ [][Next]_vars

(***************************************************************************)
(* The linked-list engine (brainfuck.c): execute_code, its build_maps and  *)
(* the handlers of "*" and "!".  A machine m is [state, memory, io, pc]:   *)
(* state is the ExecutionState with the Maps, memory the doubly linked     *)
(* list of nodes as a function from the node's position (0 for the first   *)
(* node created) to its data, io what getchar returned and what putchar    *)
(* was given.  A Pointer is [current, main]: the position of its node, and *)
(* whether it is the main pointer.                                         *)
(***************************************************************************)
\* the characters of the short sources of the linked-list engine
CodeChars == {"+", ">", "[", "]", "*", "!", ".", ",", COMMENT_CHAR, "\n"}

ShortCodes == UNION { [1 .. n -> CodeChars] : n \in 0 .. MaxCodeTextLen }

LongCodes ==
  { <<"+", "+", "+", COMMENT_CHAR, "[", "\n", ".">>,
    <<"+", "+", "+", COMMENT_CHAR, "x", "\n", ".">>,
    <<"+", COMMENT_CHAR, "[", "]", "*", "*", "\n", ".">>,
    <<"*", ">", "+", "*", ".">>,
    <<"+", "*", ">", "+", "+", "*", ".">>,
    <<"+", "*", "<", "-", ".", "*", ".", "<", ".">>,
    <<"+", "+", "[", ">", "+", "<", "-", "]", ">", ".">>,
    <<",", "!", ">", "+", "!", ".">>,
    <<"+", ">", ",", "!", "+", ".">>,
    <<"+", "*", ">", ",", "!", "+", ".", "*">>,
    <<" ", "*", COMMENT_CHAR, "*", "\n", "*", COMMENT_CHAR, "*", "\n",
      "*", COMMENT_CHAR, "*", "\n">>,
    <<COMMENT_CHAR, "[", "\n", "+", "]", ".">>,
    <<"[", "[", "[", "[", "]", "]", "]", "]">>,
    <<"[", "*", "]", "*">>,
    <<"+", "+", "[", "*", "-", "]", "*">>,
    <<"+", "*", "[", "-", "*", "]", ".">> }

\* what execute_code can be given
Codes == ShortCodes \cup LongCodes

\* the bytes getchar can deliver: the codes of the commands, and others
CharCodes == {0, 1, 33, 42, 43, 44, 45, 46, 60, 62, 91, 93}

\* the command a character constant of handle_interpret_command stands for
CommandOf(command_code) ==
  CASE command_code = 43 -> "+"
    [] command_code = 45 -> "-"
    [] command_code = 62 -> ">"
    [] command_code = 60 -> "<"
    [] command_code = 46 -> "."
    [] command_code = 44 -> ","
    [] command_code = 91 -> "["
    [] command_code = 93 -> "]"
    [] command_code = 42 -> "*"
    [] OTHER -> "none"

\* memset(maps->..., 0, ...): no entry mapped
ZeroMap(c) == [i \in 0 .. (Len(c) - 1) |-> 0]

\* maps->...[open] = i; maps->...[i] = open
PairedBothWays(map, open, i) == [map EXCEPT ![open] = i, ![i] = open]

\* whether "[" may still be pushed on the bracket stack
BracketStackHasRoom(bracket_stack) == Len(bracket_stack) < MAX_BRACKET_STAR_DEPTH

\* the loop of build_maps from position i on
RECURSIVE ScanMaps(_, _, _, _, _, _)
ScanMaps(c, i, bracket_stack, star_stack, bmap, smap) ==
  IF i >= Len(c)
  THEN IF bracket_stack # <<>> \/ star_stack # <<>>
       THEN [ret |-> -1, bracket_map |-> bmap, star_map |-> smap]
       ELSE [ret |-> 0, bracket_map |-> bmap, star_map |-> smap]
  ELSE
    CASE CodeAt(c, i) = "[" ->
           IF ~BracketStackHasRoom(bracket_stack)
           THEN [ret |-> -1, bracket_map |-> bmap, star_map |-> smap]
           ELSE ScanMaps(c, i + 1, Append(bracket_stack, i), star_stack, bmap, smap)
      [] CodeAt(c, i) = "]" ->
           IF bracket_stack = <<>>
           THEN [ret |-> -1, bracket_map |-> bmap, star_map |-> smap]
           ELSE ScanMaps(c, i + 1,
                         SubSeq(bracket_stack, 1, Len(bracket_stack) - 1),
                         star_stack,
                         PairedBothWays(bmap, bracket_stack[Len(bracket_stack)], i),
                         smap)
      [] CodeAt(c, i) = "*" ->
           IF star_stack = <<>>
           THEN ScanMaps(c, i + 1, bracket_stack, Append(star_stack, i), bmap, smap)
           ELSE ScanMaps(c, i + 1, bracket_stack,
                         SubSeq(star_stack, 1, Len(star_stack) - 1),
                         bmap,
                         PairedBothWays(smap, star_stack[Len(star_stack)], i))
      [] OTHER -> ScanMaps(c, i + 1, bracket_stack, star_stack, bmap, smap)

\* build_maps(code, code_len, maps) of brainfuck.c
BuildStarMaps(c) ==
  IF Len(c) >= LIST_MAX_CODE_SIZE
  THEN [ret |-> -1, bracket_map |-> ZeroMap(c), star_map |-> ZeroMap(c)]
  ELSE ScanMaps(c, 0, <<>>, <<>>, ZeroMap(c), ZeroMap(c))

\* the ExecutionState execute_code sets up for the code c
InitialState(c, maps) ==
  [ active_pointer  |-> [current |-> 0, main |-> TRUE],
    pointer_stack   |-> <<>>,
    ip              |-> 0,
    code            |-> c,
    bracket_map     |-> maps.bracket_map,
    star_map        |-> maps.star_map,
    error_flag      |-> FALSE,
    relative_pos    |-> 0,
    in_comment_line |-> FALSE ]

NoIo == [consumed |-> <<>>, out |-> <<>>]

\* the machine before execute_code is called on c
Loaded(c) ==
  [ state  |-> InitialState(c, [bracket_map |-> <<>>, star_map |-> <<>>]),
    memory |-> <<>>,
    io     |-> NoIo,
    pc     |-> "start" ]

\* execute_code up to its loop: build_maps, the main pointer and the
\* first node
Prepare(m, alloc_ok) ==
  IF ~alloc_ok THEN [m EXCEPT !.pc = "out_of_memory"]
  ELSE IF BuildStarMaps(m.state.code).ret # 0 THEN [m EXCEPT !.pc = "rejected"]
  ELSE [m EXCEPT !.state = InitialState(m.state.code, BuildStarMaps(m.state.code)),
                 !.memory = (0 :> 0),
                 !.pc = "exec"]

\* the node of the active pointer
Current(m) == m.state.active_pointer.current

\* the data of the node of the active pointer
Data(m) == m.memory[Current(m)]

\* bf_add
BfAdd(m) == [m EXCEPT !.memory[Current(m)] = (@ + 1) % CellValues]

\* bf_sub
BfSub(m) == [m EXCEPT !.memory[Current(m)] = (@ + CellValues - 1) % CellValues]

\* the active pointer moved to the node at position n, created when the
\* list does not hold it; create_node ends the process when malloc fails
MoveOnto(m, n, by, alloc_ok) ==
  IF n \in DOMAIN m.memory
  THEN [m EXCEPT !.state.active_pointer.current = n,
                 !.state.relative_pos = @ + by]
  ELSE IF ~alloc_ok THEN [m EXCEPT !.pc = "out_of_memory"]
  ELSE [m EXCEPT !.memory = (n :> 0) @@ m.memory,
                 !.state.active_pointer.current = n,
                 !.state.relative_pos = @ + by]

\* bf_move_right
BfMoveRight(m, alloc_ok) == MoveOnto(m, Current(m) + 1, 1, alloc_ok)

\* bf_move_left
BfMoveLeft(m, alloc_ok) == MoveOnto(m, Current(m) - 1, -1, alloc_ok)

\* bf_print
BfPrint(m) == [m EXCEPT !.io.out = Append(@, Data(m))]

\* bf_input: ch is what getchar returns
BfInput(m, ch) ==
  [m EXCEPT !.memory[Current(m)] = IF ch = EOF THEN 0 ELSE ch,
            !.io.consumed = Append(@, ch)]

\* the entry of a map for the position ip
MapAt(map, position) == map[position]

\* handle_star_command
HandleStarCommand(m, alloc_ok) ==
  IF MapAt(m.state.star_map, m.state.ip) = 0 /\ CodeAt(m.state.code, m.state.ip) = "*"
  THEN [m EXCEPT !.state.error_flag = TRUE]
  ELSE IF MapAt(m.state.star_map, m.state.ip) > m.state.ip
  THEN IF Len(m.state.pointer_stack) >= MAX_POINTER_DEPTH
       THEN [m EXCEPT !.state.error_flag = TRUE]
       ELSE IF ~alloc_ok THEN [m EXCEPT !.pc = "out_of_memory"]
       ELSE [m EXCEPT !.state.pointer_stack = Append(@, m.state.active_pointer),
                      !.state.active_pointer = [current |-> Current(m), main |-> FALSE]]
  ELSE IF m.state.pointer_stack = <<>>
       THEN [m EXCEPT !.state.error_flag = TRUE]
       ELSE [m EXCEPT !.state.active_pointer =
                        m.state.pointer_stack[Len(m.state.pointer_stack)],
                      !.state.pointer_stack = SubSeq(@, 1, Len(@) - 1)]

\* the jump of handle_open_bracket and handle_close_bracket
JumpThroughMap(m, bracket) ==
  IF MapAt(m.state.bracket_map, m.state.ip) = 0
     /\ CodeAt(m.state.code, m.state.ip) = bracket
  THEN [m EXCEPT !.state.error_flag = TRUE, !.state.ip = Len(m.state.code)]
  ELSE [m EXCEPT !.state.ip = MapAt(m.state.bracket_map, m.state.ip)]

\* handle_open_bracket
HandleOpenBracket(m) == IF Data(m) = 0 THEN JumpThroughMap(m, "[") ELSE m

\* handle_close_bracket
HandleCloseBracket(m) == IF Data(m) # 0 THEN JumpThroughMap(m, "]") ELSE m

\* handle_interpret_command
HandleInterpretCommand(m, alloc_ok, ch) ==
  CASE CommandOf(Data(m)) = "+" -> BfAdd(m)
    [] CommandOf(Data(m)) = "-" -> BfSub(m)
    [] CommandOf(Data(m)) = ">" -> BfMoveRight(m, alloc_ok)
    [] CommandOf(Data(m)) = "<" -> BfMoveLeft(m, alloc_ok)
    [] CommandOf(Data(m)) = "." -> BfPrint(m)
    [] CommandOf(Data(m)) = "," -> BfInput(m, ch)
    [] OTHER -> m

\* the switch of execute_code on the command cmd
Dispatch(m, cmd, alloc_ok, ch) ==
  CASE cmd = "+" -> BfAdd(m)
    [] cmd = "-" -> BfSub(m)
    [] cmd = ">" -> BfMoveRight(m, alloc_ok)
    [] cmd = "<" -> BfMoveLeft(m, alloc_ok)
    [] cmd = "." -> BfPrint(m)
    [] cmd = "," -> BfInput(m, ch)
    [] cmd = "[" -> HandleOpenBracket(m)
    [] cmd = "]" -> HandleCloseBracket(m)
    [] cmd = "*" -> HandleStarCommand(m, alloc_ok)
    [] cmd = "!" -> HandleInterpretCommand(m, alloc_ok, ch)

\* if (!state.error_flag) state.ip++
Advance(m) ==
  IF m.state.error_flag \/ m.pc # "exec" THEN m
  ELSE [m EXCEPT !.state.ip = @ + 1]

\* the commands execute_code executes: valid_commands
ValidCommands == {"+", "-", ">", "<", ".", ",", "[", "]", "*", "!"}

\* the loop of execute_code goes on
Looping(m) ==
  m.pc = "exec" /\ m.state.ip < Len(m.state.code) /\ ~m.state.error_flag

\* the character the loop is at
CurrentCmd(m) == CodeAt(m.state.code, m.state.ip)

\* whether the loop skips the current character: it lies in a comment,
\* starts one, or is no command
SkipChar(m) ==
  \/ m.state.in_comment_line
  \/ CurrentCmd(m) = COMMENT_CHAR
  \/ CurrentCmd(m) \notin ValidCommands

\* the iteration that skips the current character
Skipped(m) ==
  [m EXCEPT !.state.in_comment_line =
              IF m.state.in_comment_line THEN CurrentCmd(m) # "\n"
              ELSE CurrentCmd(m) = COMMENT_CHAR,
            !.state.ip = @ + 1]

\* one iteration of the loop
Iteration(m, alloc_ok, ch) ==
  IF SkipChar(m) THEN Skipped(m)
  ELSE Advance(Dispatch(m, CurrentCmd(m), alloc_ok, ch))

\* the end of execute_code: the temporary pointers, the list and the maps
\* are freed
CleanedUp(m) ==
  [m EXCEPT !.pc = "finished",
            !.memory = <<>>,
            !.state.pointer_stack = <<>>,
            !.state.active_pointer = [current |-> 0, main |-> TRUE]]

\* the command that acts in the iteration at hand: the one "!" finds in
\* the cell, or the current one
ActingCmd(m) ==
  IF CurrentCmd(m) = "!" THEN CommandOf(Data(m)) ELSE CurrentCmd(m)

\* whether the iteration at hand calls create_node
CreatesNode(m) ==
  \/ ActingCmd(m) = ">" /\ Current(m) + 1 \notin DOMAIN m.memory
  \/ ActingCmd(m) = "<" /\ Current(m) - 1 \notin DOMAIN m.memory

\* whether the iteration at hand calls create_pointer_struct
CreatesPointer(m) ==
  /\ CurrentCmd(m) = "*"
  /\ MapAt(m.state.star_map, m.state.ip) > m.state.ip
  /\ Len(m.state.pointer_stack) < MAX_POINTER_DEPTH

\* what malloc can answer: the list never holds more than MaxNodes nodes
MallocChoices(m) ==
  IF CreatesNode(m)
  THEN IF Cardinality(DOMAIN m.memory) >= MaxNodes THEN {FALSE} ELSE BOOLEAN
  ELSE IF CreatesPointer(m) THEN BOOLEAN
  ELSE {TRUE}

\* what getchar can answer in the iteration at hand
GetcharChoices(m) ==
  IF ActingCmd(m) # "," THEN {EOF}
  ELSE IF m.io.consumed # <<>> /\ m.io.consumed[Len(m.io.consumed)] = EOF
  THEN {EOF}
  ELSE CharCodes \cup {EOF}

\* the machine of the state
Machine == [state |-> state, memory |-> memory, io |-> io, pc |-> list_pc]

\* the step ends in the machine r, having executed cmd
Becomes(r, cmd) ==
  /\ state' = r.state
  /\ memory' = r.memory
  /\ io' = r.io
  /\ list_pc' = r.pc
  /\ list_last' = [cmd |-> cmd, before |-> Machine, blocks |-> blocks]
  /\ blocks' = IF Len(r.state.pointer_stack) > Len(state.pointer_stack)
               THEN Append(blocks, Current(Machine))
               ELSE IF Len(r.state.pointer_stack) < Len(state.pointer_stack)
               THEN SubSeq(blocks, 1, Len(r.state.pointer_stack))
               ELSE blocks
  /\ UNCHANGED << array_vars, paren_vars >>

\* main: execute_code(code_to_execute, actual_code_len, debug_mode), up
\* to the loop
ExecuteCode ==
  /\ list_pc = "start"
  /\ \E alloc_ok \in BOOLEAN : Becomes(Prepare(Machine, alloc_ok), "start")

\* an iteration on a character that is skipped
SkipStep ==
  /\ Looping(Machine)
  /\ SkipChar(Machine)
  /\ Becomes(Skipped(Machine), "skip")

\* the loop is at the command cmd, outside comments
Commanded(cmd) ==
  /\ Looping(Machine)
  /\ ~SkipChar(Machine)
  /\ CurrentCmd(Machine) = cmd

\* the iteration that executes the command cmd
Performed(cmd) ==
  \E alloc_ok \in MallocChoices(Machine), ch \in GetcharChoices(Machine) :
    Becomes(Iteration(Machine, alloc_ok, ch), cmd)

\* case '+'
AddStep ==
  /\ Commanded("+")
  /\ Performed("+")

\* case '-'
SubStep ==
  /\ Commanded("-")
  /\ Performed("-")

\* case '>'
MoveRightStep ==
  /\ Commanded(">")
  /\ Performed(">")

\* case '<'
MoveLeftStep ==
  /\ Commanded("<")
  /\ Performed("<")

\* case '.'
PrintStep ==
  /\ Commanded(".")
  /\ Performed(".")

\* case ','
InputStep ==
  /\ Commanded(",")
  /\ Performed(",")

\* case '['
OpenBracketStep ==
  /\ Commanded("[")
  /\ Performed("[")

\* case ']'
CloseBracketStep ==
  /\ Commanded("]")
  /\ Performed("]")

\* case '*'
StarStep ==
  /\ Commanded("*")
  /\ Performed("*")

\* case '!'
InterpretStep ==
  /\ Commanded("!")
  /\ Performed("!")

\* the loop has ended: the cleanup of execute_code
Finish ==
  /\ list_pc = "exec"
  /\ ~Looping(Machine)
  /\ Becomes(CleanedUp(Machine), "finish")

\* what getchar answers to the next read when the input is inp
NextInput(m, inp) ==
  IF Len(m.io.consumed) < Len(inp) THEN inp[Len(m.io.consumed) + 1] ELSE EOF

\* the loop of execute_code on the input inp with no malloc failing, for
\* at most fuel iterations
RECURSIVE RunLoop(_, _, _)
RunLoop(m, inp, fuel) ==
  IF ~Looping(m) \/ fuel = 0 THEN m
  ELSE RunLoop(Iteration(m, TRUE, NextInput(m, inp)), inp, fuel - 1)

\* execute_code on the code c and the input inp, up to its cleanup
RunOf(c, inp) == RunLoop(Prepare(Loaded(c), TRUE), inp, MaxRunSteps)

ListNext ==
  \/ ExecuteCode
  \/ SkipStep
  \/ AddStep
  \/ SubStep
  \/ MoveRightStep
  \/ MoveLeftStep
  \/ PrintStep
  \/ InputStep
  \/ OpenBracketStep
  \/ CloseBracketStep
  \/ StarStep
  \/ InterpretStep
  \/ Finish

ListInit ==
  /\ ArrayEngineIdle
  /\ ParenEngineIdle
  /\ \E c \in Codes :
       /\ state = Loaded(c).state
       /\ memory = Loaded(c).memory
       /\ io = Loaded(c).io
       /\ list_pc = Loaded(c).pc
  /\ list_last = [cmd |-> "none", before |-> Loaded(<<>>), blocks |-> <<>>]
  /\ blocks = <<>>

ListSpec == ListInit /\ [][ListNext]_vars

(***************************************************************************)
(* The engine of brainfuckpp_interpreter.c: a doubly linked list of int    *)
(* cells, "(" ")" temporary pointers kept on a pointer stack, and "*", a   *)
(* move by the value of the current cell.  A node is named by its          *)
(* position relative to the first node; a Pointer struct is its current    *)
(* node.                                                                   *)
(***************************************************************************)
\* the characters of the texts enumerated exhaustively
ParenTextChars == {"+", ">", "(", ")", "*", "[", "]", ",", COMMENT_CHAR, "\n"}

ParenShortTexts ==
  UNION { [1 .. n -> ParenTextChars] : n \in 0 .. MaxCodeTextLen }

ParenLongTexts ==
  { <<"(", ">", "+", ")", ".">>,
    <<"+", "(", ">", "+", "(", "<", "-", ")", ")", ".">>,
    <<"+", "+", "(", "*", "+", ")", "*", ".">>,
    <<"-", "(", "*", ",", ")", ".">>,
    <<"+", "+", "[", "(", ">", "+", ")", "-", "]", ">", ".">>,
    <<"(", "(", "(", ")", ")", ")">>,
    <<"+", "/", "x", "(", COMMENT_CHAR, ")", "\n", "<", ",", ")", ".">>,
    <<",", "(", "[", "-", ">", "+", "<", "]", ")", ">", ".">>,
    <<"(", "+", "[", "]", ")">> }

ParenSources == ParenShortTexts \cup ParenLongTexts

\* is_command_char
ParenIsCommandChar(c) ==
  c \in {"+", "-", "<", ">", ".", ",", "[", "]", "(", ")", "/", "*"}

\* filter_code: the loop from input[i] on (i counted from 1)
RECURSIVE ParenFilterFrom(_, _, _)
ParenFilterFrom(input, i, in_comment) ==
  IF i > Len(input) THEN <<>>
  ELSE IF in_comment THEN ParenFilterFrom(input, i + 1, input[i] # "\n")
  ELSE IF input[i] = COMMENT_CHAR THEN ParenFilterFrom(input, i + 1, TRUE)
  ELSE IF ParenIsCommandChar(input[i])
       THEN << input[i] >> \o ParenFilterFrom(input, i + 1, FALSE)
       ELSE ParenFilterFrom(input, i + 1, FALSE)

\* filter_code
ParenFilterCode(input) == ParenFilterFrom(input, 1, FALSE)

\* an entry of map_stack
MapStackEntry(position, type) == [position |-> position, type |-> type]

\* build_maps, case ']' and case ')': the pair is recorded in map
PairedWith(map, open_pos, i) == [map EXCEPT ![i] = open_pos, ![open_pos] = i]

\* build_maps: the loop from position i on, with map_stack as stack
RECURSIVE ParenScan(_, _, _, _, _)
ParenScan(c, i, stack, bmap, pmap) ==
  IF i >= Len(c)
  THEN [ ret |-> IF stack = <<>> THEN 0 ELSE -1,
         bracket_map |-> bmap, paren_map |-> pmap ]
  ELSE IF CodeAt(c, i) \in {"[", "("}
  THEN IF Len(stack) >= MAX_NESTING_DEPTH
       THEN [ret |-> -1, bracket_map |-> bmap, paren_map |-> pmap]
       ELSE ParenScan(c, i + 1,
                      Append(stack,
                             MapStackEntry(i, IF CodeAt(c, i) = "["
                                              THEN "TYPE_BRACKET"
                                              ELSE "TYPE_PAREN")),
                      bmap, pmap)
  ELSE IF CodeAt(c, i) = "]"
  THEN IF stack = <<>> \/ stack[Len(stack)].type # "TYPE_BRACKET"
       THEN [ret |-> -1, bracket_map |-> bmap, paren_map |-> pmap]
       ELSE ParenScan(c, i + 1, SubSeq(stack, 1, Len(stack) - 1),
                      PairedWith(bmap, stack[Len(stack)].position, i), pmap)
  ELSE IF CodeAt(c, i) = ")"
  THEN IF stack = <<>> \/ stack[Len(stack)].type # "TYPE_PAREN"
       THEN [ret |-> -1, bracket_map |-> bmap, paren_map |-> pmap]
       ELSE ParenScan(c, i + 1, SubSeq(stack, 1, Len(stack) - 1),
                      bmap, PairedWith(pmap, stack[Len(stack)].position, i))
  ELSE ParenScan(c, i + 1, stack, bmap, pmap)

\* build_maps(interp)
ParenBuildMaps(c) == ParenScan(c, 0, <<>>, UnsetMap(c), UnsetMap(c))

\* the list of nodes init_pointer makes: one node holding 0
FirstNode == (0 :> 0)

\* the list n with a new node, holding 0, at position p
WithNode(n, p) == [q \in DOMAIN n \cup {p} |-> IF q \in DOMAIN n THEN n[q] ELSE 0]

\* the outcome of a move: the return value, the list, the pointer's current
\* node and the nodes malloc can still deliver
MoveResult(ret, n, current, room) ==
  [ret |-> ret, nodes |-> n, current |-> current, room |-> room]

\* the move of a pointer onto the node at position target, made by malloc
\* when the list does not reach it
MoveOntoNode(n, current, target, room) ==
  IF target \in DOMAIN n THEN MoveResult(0, n, target, room)
  ELSE IF room = 0 THEN MoveResult(-1, n, current, room)
  ELSE MoveResult(0, WithNode(n, target), target, room - 1)

\* move_right
MoveRight(n, current, room) == MoveOntoNode(n, current, current + 1, room)

\* move_left
MoveLeft(n, current, room) == MoveOntoNode(n, current, current - 1, room)

\* move_relative: |offset| calls of move_right or move_left, given up at
\* the first that fails
RECURSIVE MoveSteps(_, _, _)
MoveSteps(r, towards, remaining) ==
  IF remaining = 0 \/ r.ret # 0 THEN r
  ELSE MoveSteps(MoveOntoNode(r.nodes, r.current, r.current + towards, r.room),
                 towards, remaining - 1)

MoveRelative(n, current, offset, room) ==
  IF offset > 0 THEN MoveSteps(MoveResult(0, n, current, room), 1, offset)
  ELSE IF offset < 0 THEN MoveSteps(MoveResult(0, n, current, room), -1, 0 - offset)
  ELSE MoveResult(0, n, current, room)

\* the engine as a whole
ParenNow ==
  [ interp |-> interp, frame |-> frame, nodes |-> nodes, io |-> paren_io,
    pc |-> paren_pc, status |-> paren_status ]

\* the node the active pointer of b designates
ActiveNode(b) == b.frame.current_active_pointer

\* get_value(current_active_pointer)
GetValue(b) == b.nodes[ActiveNode(b)]

\* the step ends in the engine r, having executed cmd
ParenBecomes(r, cmd) ==
  /\ interp' = r.interp
  /\ frame' = r.frame
  /\ nodes' = r.nodes
  /\ paren_io' = r.io
  /\ paren_pc' = r.pc
  /\ paren_status' = r.status
  /\ paren_last' = [cmd |-> cmd, before |-> ParenNow, open_parens |-> open_parens]
  /\ open_parens' =
       IF cmd = "(" /\ r.pc = "run"
       THEN Append(open_parens,
                   [ node  |-> ActiveNode(ParenNow),
                     depth |-> Len(interp.pointer_stack),
                     nodes |-> nodes ])
       ELSE IF cmd = ")" /\ r.pc = "run" /\ open_parens # <<>>
       THEN SubSeq(open_parens, 1, Len(open_parens) - 1)
       ELSE open_parens
  /\ UNCHANGED << paren_source, array_vars, list_vars >>

\* the engine create_interpreter returns for the filtered code c with the
\* maps built: a main pointer on the first node and an empty pointer stack
Created(c, built) ==
  [ interp |-> [ code |-> c,
                 bracket_map |-> built.bracket_map,
                 paren_map |-> built.paren_map,
                 pointer_stack |-> <<>>,
                 main_pointer_freed |-> FALSE ],
    frame  |-> [ ip |-> 0, current_active_pointer |-> 0,
                 instruction_count |-> 0 ],
    nodes  |-> FirstNode,
    io     |-> [out |-> <<>>, consumed |-> <<>>, eof |-> FALSE],
    pc     |-> "run",
    status |-> "none" ]

\* main with a NULL interpreter: run_status stays -1
NotCreated(b) == [b EXCEPT !.pc = "exit", !.status = "not_created"]

\* create_interpreter for the filtered code c, and the prologue of run
ParenCreateWith(b, c, alloc_ok) ==
  IF ~alloc_ok \/ Len(c) > MAX_CODE_SIZE THEN NotCreated(b)
  ELSE IF ParenBuildMaps(c).ret # 0 THEN NotCreated(b)
  ELSE Created(c, ParenBuildMaps(c))

\* main: create_interpreter(code_buffer, stdin, stdout), then run up to its
\* loop
ParenCreateInterpreter ==
  /\ paren_pc = "create"
  /\ \E alloc_ok \in BOOLEAN :
       ParenBecomes(ParenCreateWith(ParenNow, ParenFilterCode(paren_source),
                                    alloc_ok),
                    "create")

\* the loop condition of run with the fetch of the command
ParenFetch(cmd) ==
  /\ paren_pc = "run"
  /\ frame.ip < Len(interp.code)
  /\ frame.instruction_count < MAX_INSTRUCTIONS
  /\ CodeAt(interp.code, frame.ip) = cmd

\* "return -1" from inside the loop
ParenReturn(b) ==
  [b EXCEPT !.pc = "exit", !.status = "failed",
            !.frame.instruction_count = @ + 1]

\* the end of an iteration: instruction_count++ at its start, ip++ at its end
ParenAdvance(b) ==
  [b EXCEPT !.frame.ip = @ + 1, !.frame.instruction_count = @ + 1]

\* case '>' and case '<', and case '*': the engine after the move r
AfterMove(b, r) ==
  IF r.ret # 0 THEN ParenReturn([b EXCEPT !.nodes = r.nodes,
                                          !.frame.current_active_pointer = r.current])
  ELSE ParenAdvance([b EXCEPT !.nodes = r.nodes,
                              !.frame.current_active_pointer = r.current])

\* the nodes malloc can deliver during one iteration
RoomChoices == 0 .. (MaxNodes - Cardinality(DOMAIN nodes))

\* case '>'
ParenRight ==
  /\ ParenFetch(">")
  /\ \E room \in RoomChoices :
       ParenBecomes(AfterMove(ParenNow,
                              MoveRight(nodes, ActiveNode(ParenNow), room)),
                    ">")

\* case '<'
ParenLeft ==
  /\ ParenFetch("<")
  /\ \E room \in RoomChoices :
       ParenBecomes(AfterMove(ParenNow,
                              MoveLeft(nodes, ActiveNode(ParenNow), room)),
                    "<")

\* set_value, increment_value and decrement_value on the active pointer
SetValue(b, value) == [b EXCEPT !.nodes[ActiveNode(b)] = value]

\* case '+'
ParenPlus ==
  /\ ParenFetch("+")
  /\ ParenBecomes(ParenAdvance(SetValue(ParenNow, GetValue(ParenNow) + 1)), "+")

\* case '-'
ParenMinus ==
  /\ ParenFetch("-")
  /\ ParenBecomes(ParenAdvance(SetValue(ParenNow, GetValue(ParenNow) - 1)), "-")

\* fputc(val_to_output, interp->output): the value is written as an
\* unsigned char
Fputc(b, val_to_output) ==
  [b EXCEPT !.io.out = Append(@, val_to_output % CellValues)]

\* case '.'
ParenDot ==
  /\ ParenFetch(".")
  /\ ParenBecomes(ParenAdvance(Fputc(ParenNow, GetValue(ParenNow))), ".")

\* fgetc(interp->input) has returned input_char
Fgetc(b, input_char) ==
  [b EXCEPT !.io.consumed = Append(@, input_char),
            !.io.eof = (input_char = EOF)]

\* case ','
ParenComma ==
  /\ ParenFetch(",")
  /\ \E input_char \in (IF paren_io.eof THEN {EOF} ELSE InputBytes \cup {EOF}) :
       ParenBecomes(ParenAdvance(SetValue(Fgetc(ParenNow, input_char),
                                          IF input_char = EOF THEN 0
                                          ELSE input_char)),
                    ",")

\* the jump of case '[' and case ']' through bracket_map
ParenJump(b) ==
  IF b.interp.bracket_map[b.frame.ip] = -1 THEN ParenReturn(b)
  ELSE ParenAdvance([b EXCEPT !.frame.ip = b.interp.bracket_map[b.frame.ip]])

\* case '['
ParenOpenBracket ==
  /\ ParenFetch("[")
  /\ ParenBecomes(IF GetValue(ParenNow) = 0 THEN ParenJump(ParenNow)
                  ELSE ParenAdvance(ParenNow),
                  "[")

\* case ']'
ParenCloseBracket ==
  /\ ParenFetch("]")
  /\ ParenBecomes(IF GetValue(ParenNow) # 0 THEN ParenJump(ParenNow)
                  ELSE ParenAdvance(ParenNow),
                  "]")

\* create_temp_pointer(self): a new Pointer struct on the node of self
CreateTempPointer(self) == self

\* case '(': the active pointer is pushed and a temporary pointer on the
\* same node becomes the active one
PushActive(b, alloc_ok) ==
  IF Len(b.interp.pointer_stack) >= MAX_POINTER_STACK_DEPTH THEN ParenReturn(b)
  ELSE IF ~alloc_ok
  THEN ParenReturn([b EXCEPT !.interp.pointer_stack = Append(@, ActiveNode(b))])
  ELSE ParenAdvance([b EXCEPT !.interp.pointer_stack = Append(@, ActiveNode(b)),
                              !.frame.current_active_pointer =
                                 CreateTempPointer(ActiveNode(b))])

\* case '('
ParenOpenParen ==
  /\ ParenFetch("(")
  /\ \E alloc_ok \in BOOLEAN : ParenBecomes(PushActive(ParenNow, alloc_ok), "(")

\* case ')' with the temporary pointer kept as the active one
KeptPointer(active, stack) == active

\* case ')': the pointer that becomes active again, the top of the stack
RestoredPointer(active, stack) == stack[Len(stack)]

\* case ')'
PopActive(b) ==
  IF b.interp.pointer_stack = <<>> THEN ParenReturn(b)
  ELSE ParenAdvance(
         [b EXCEPT !.frame.current_active_pointer =
                      RestoredPointer(ActiveNode(b), b.interp.pointer_stack),
                   !.interp.pointer_stack = SubSeq(@, 1, Len(@) - 1)])

ParenCloseParen ==
  /\ ParenFetch(")")
  /\ ParenBecomes(PopActive(ParenNow), ")")

\* case '*'
ParenStar ==
  /\ ParenFetch("*")
  /\ \E room \in RoomChoices :
       ParenBecomes(AfterMove(ParenNow,
                              MoveRelative(nodes, ActiveNode(ParenNow),
                                           GetValue(ParenNow), room)),
                    "*")

\* '/' is a command character without a case in the switch
ParenSlash ==
  /\ ParenFetch("/")
  /\ ParenBecomes(ParenAdvance(ParenNow), "/")

\* the end of run: every pointer left on the stack is freed, the main
\* pointer among them when a "(" is still open; return 0
ParenRunExit ==
  /\ paren_pc = "run"
  /\ ~(frame.ip < Len(interp.code) /\ frame.instruction_count < MAX_INSTRUCTIONS)
  /\ ParenBecomes([ParenNow EXCEPT !.pc = "exit", !.status = "ok",
                                   !.interp.main_pointer_freed =
                                      (interp.pointer_stack # <<>>),
                                   !.interp.pointer_stack = <<>>],
                  "exit")

\* whether free_interpreter frees the main pointer a second time: run has
\* freed it, or run has returned -1 with it on the pointer stack
FreesMainPointerTwice(b) ==
  b.interp.main_pointer_freed \/ b.interp.pointer_stack # <<>>

\* main: free_interpreter(interp); a second free of the main pointer ends
\* the process or goes unnoticed
ParenFreeInterpreter ==
  /\ paren_pc = "exit"
  /\ paren_status # "not_created"
  /\ \E crash \in (IF FreesMainPointerTwice(ParenNow) THEN BOOLEAN ELSE {FALSE}) :
       ParenBecomes([ParenNow EXCEPT !.pc = "freed",
                                    !.status = IF crash THEN "crash" ELSE @,
                                    !.nodes = <<>>,
                                    !.interp.pointer_stack = <<>>],
                    "free")

ParenNext ==
  \/ ParenCreateInterpreter
  \/ ParenRight
  \/ ParenLeft
  \/ ParenPlus
  \/ ParenMinus
  \/ ParenDot
  \/ ParenComma
  \/ ParenOpenBracket
  \/ ParenCloseBracket
  \/ ParenOpenParen
  \/ ParenCloseParen
  \/ ParenStar
  \/ ParenSlash
  \/ ParenRunExit
  \/ ParenFreeInterpreter

\* the engine before create_interpreter
NotYetCreated ==
  [ interp |-> [code |-> <<>>, bracket_map |-> <<>>, paren_map |-> <<>>,
                pointer_stack |-> <<>>, main_pointer_freed |-> FALSE],
    frame  |-> [ip |-> 0, current_active_pointer |-> 0, instruction_count |-> 0],
    nodes  |-> FirstNode,
    io     |-> [out |-> <<>>, consumed |-> <<>>, eof |-> FALSE],
    pc     |-> "create",
    status |-> "none" ]

ParenInit ==
  /\ ArrayEngineIdle
  /\ ListEngineIdle
  /\ paren_source \in ParenSources
  /\ interp = NotYetCreated.interp
  /\ frame = NotYetCreated.frame
  /\ nodes = NotYetCreated.nodes
  /\ paren_io = NotYetCreated.io
  /\ paren_pc = "create"
  /\ paren_status = "none"
  /\ paren_last = [cmd |-> "none", before |-> NotYetCreated, open_parens |-> <<>>]
  /\ open_parens = <<>>

ParenSpec == ParenInit /\ [][ParenNext]_vars


(***************************************************************************)
(* Properties.                                                             *)
(***************************************************************************)
\* whether the logical index i designates an element of the backing array
InTape(t, i) == 0 <= t.zero_offset + i /\ t.zero_offset + i < t.size

\* the logical indices the backing array holds
LogicalIndices(t) == (0 - t.zero_offset) .. (t.size - 1 - t.zero_offset)

\* the value of the cell at logical index i; a cell the array does not hold
\* yet has never been written and reads zero
CellAt(t, i) == IF InTape(t, i) THEN t.cells[t.zero_offset + i] ELSE 0

\* the two tapes hold the same value in every cell
SameCells(t1, t2) ==
  \A i \in LogicalIndices(t1) \cup LogicalIndices(t2) : CellAt(t1, i) = CellAt(t2, i)

\* the last iteration executed cmd and the loop goes on
Completed(cmd) == last.cmd = cmd /\ pc = "run"

\* C1: whenever ensure_tape_capacity returned success for a logical index
\* i, i is addressable: 0 <= zero_offset + i < size.
C1_EnsuredIndexAddressable ==
  \A i \in last.ensured : InTape(tape, i)

\* C2: after the "}" of a scope every tape cell holds the value it held
\* immediately before the scope's "{".
C2_ScopeRestoresEveryCell ==
  Completed("}") => SameCells(last.closed.tape, tape)

\* C3: with two nested scopes mutating the same cell, closing the inner
\* scope returns the cell to the value the outer scope had given it, and
\* closing the outer scope returns it to the value it had before the outer
\* scope: each level restores to the value at its own entry.
C3_NestedScopesRestoreIndependently ==
  Completed("}") =>
    /\ \A i \in DOMAIN last.closed.first :
         ( /\ InTape(tape, i)
           /\ Len(scopes) >= 1
           /\ i \in DOMAIN scopes[Len(scopes)].first )
         => CellAt(tape, i) = last.closed.first[i]
    /\ \A i \in (DOMAIN last.closed.first) \cap last.closed.nested :
         InTape(tape, i) => CellAt(tape, i) = last.closed.first[i]

\* C4: after "}" the current position is the one held immediately before
\* the matching "{", whatever moves were made inside; and while a scope is
\* open the position of each enclosing scope stays what it was at the "{".
C4_PositionResetOnClose ==
  /\ Completed("}") => Index = last.closed.index
  /\ pc = "run" =>
       \A k \in 1 .. Len(scopes) : pointer_stack[k - 1] = scopes[k].index

\* a scope in which the position was moved has just been closed
C4_Witness ==
  /\ Completed("}")
  /\ last.index # last.closed.index
  /\ Index = last.closed.index

\* C5: if build_maps rejects the program no instruction is ever executed
\* (run is not entered, the tape is not touched, nothing is written or
\* read), and whenever an instruction has been executed build_maps had
\* accepted the program and left its maps.
C5_NoExecutionWhenRejected ==
  /\ BuildMaps(code).ret # 0 =>
       /\ pc \in {"create", "exit"}
       /\ instruction_count = 0
       /\ last.cmd = "none"
       /\ output = <<>>
       /\ in_count = 0
       /\ tape = NoTape
  /\ (pc = "run" \/ last.cmd # "none") =>
       /\ BuildMaps(code).ret = 0
       /\ bracket_map = BuildMaps(code).bracket_map
       /\ brace_map = BuildMaps(code).brace_map

\* a program holding commands that write, read and output was rejected
C5_Witness ==
  /\ pc = "exit"
  /\ status = "rejected"
  /\ \E i \in 1 .. Len(code) : code[i] \in {"+", ",", "."}

\* the bracket and brace characters of a program, in order
Nesting(c) == SelectSeq(c, LAMBDA ch : ch \in {"[", "]", "{", "}"})

\* whether s[k], s[k+1] is an opener directly followed by its own closer
AdjacentPair(s, k) ==
  \/ s[k] = "[" /\ s[k + 1] = "]"
  \/ s[k] = "{" /\ s[k + 1] = "}"

\* s with adjacent opener-closer pairs deleted until none is left
RECURSIVE Reduced(_)
Reduced(s) ==
  IF \E k \in 1 .. (Len(s) - 1) : AdjacentPair(s, k)
  THEN LET k == CHOOSE k \in 1 .. (Len(s) - 1) : AdjacentPair(s, k)
       IN Reduced(SubSeq(s, 1, k - 1) \o SubSeq(s, k + 2, Len(s)))
  ELSE s

\* every closer matches the most recent unclosed opener, which is of its
\* own family, and no opener is left unclosed
WellNested(c) == Reduced(Nesting(c)) = <<>>

\* the number of positions i .. j of c that hold ch
Count(c, ch, i, j) == Cardinality({k \in i .. j : CodeAt(c, k) = ch})

\* the largest number of openers unclosed at any point of c
NestingDepth(c) ==
  LET Open(j) == Count(c, "[", 0, j) + Count(c, "{", 0, j)
                   - Count(c, "]", 0, j) - Count(c, "}", 0, j)
      depths == {Open(j) : j \in 0 .. (Len(c) - 1)} \cup {0}
  IN CHOOSE d \in depths : \A e \in depths : e <= d

\* create_interpreter has run build_maps
Built == pc # "create" /\ status # "create_failed"

\* C6: build_maps succeeds exactly on the programs that are well nested
\* over the two families within the nesting limit; "[{}]" is accepted,
\* "[{]}", "{[}]", a lone "]" and a lone "[" are rejected.
C6_BuildMapsAcceptsWellNested ==
  Built =>
    /\ (status # "rejected")
         <=> (WellNested(code) /\ NestingDepth(code) <= MAX_NESTING_DEPTH)
    /\ code = <<"[", "{", "}", "]">> => status # "rejected"
    /\ code \in { <<"[", "{", "]", "}">>, <<"{", "[", "}", "]">>,
                  <<"]">>, <<"[">> } => status = "rejected"

\* "[{}]" has been accepted and is running
C6_Witness ==
  /\ code = <<"[", "{", "}", "]">>
  /\ pc = "run"
  /\ status = "none"

\* the closer that matches the opener at position i: the first later closer
\* at which the family's openers and closers from i on balance
Partner(c, i, open, close) ==
  CHOOSE j \in (i + 1) .. (Len(c) - 1) :
    /\ CodeAt(c, j) = close
    /\ Count(c, open, i, j) = Count(c, close, i, j)
    /\ \A k \in (i + 1) .. (j - 1) :
         ~(CodeAt(c, k) = close /\ Count(c, open, i, k) = Count(c, close, i, k))

\* map pairs every open with its matching close, both ways, and holds -1
\* everywhere else
PairsFamily(c, map, open, close) ==
  /\ DOMAIN map = 0 .. (Len(c) - 1)
  /\ \A i \in 0 .. (Len(c) - 1) :
       /\ CodeAt(c, i) = open =>
            /\ map[i] = Partner(c, i, open, close)
            /\ map[i] > i
            /\ CodeAt(c, map[i]) = close
            /\ map[map[i]] = i
       /\ CodeAt(c, i) = close =>
            /\ map[i] \in 0 .. (i - 1)
            /\ CodeAt(c, map[i]) = open
            /\ Partner(c, map[i], open, close) = i
            /\ map[map[i]] = i
       /\ CodeAt(c, i) \notin {open, close} => map[i] = -1

\* C7: after a successful build_maps, and for as long as run executes,
\* bracket_map pairs every "[" with its matching "]" and brace_map every
\* "{" with its matching "}": symmetric, the opener's partner a later
\* closer of its family, every other entry -1.
C7_MapsPairPartners ==
  (Built /\ status # "rejected") =>
    /\ PairsFamily(code, bracket_map, "[", "]")
    /\ PairsFamily(code, brace_map, "{", "}")

\* a program with a loop and a scope has executed instructions
C7_Witness ==
  /\ pc = "run"
  /\ instruction_count >= 2
  /\ \E i \in DOMAIN bracket_map : bracket_map[i] > i
  /\ \E i \in DOMAIN brace_map : brace_map[i] > i

\* the last iteration was a "+", "-" or "," and the loop goes on
Mutated == last.cmd \in {"+", "-", ","} /\ pc = "run"

\* log holds an entry of the cell at index tagged level
HasEntry(log, index, level) ==
  \E k \in 1 .. Len(log) :
    log[k].logical_index = index /\ log[k].stack_level = level

\* C8: whenever "+", "-" or "," has changed a cell while a scope of level
\* L >= 1 is current, the undo log holds an entry for (cell, L) with the
\* value the cell had before its first mutation at level L.
C8_MutationIsLogged ==
  (Mutated /\ pointer_stack_top >= 1) =>
    \E k \in 1 .. Len(undo_log) :
      /\ undo_log[k].logical_index = Index
      /\ undo_log[k].stack_level = pointer_stack_top
      /\ undo_log[k].original_value = scopes[pointer_stack_top].first[Index]

\* the cell the last instruction worked on had already been mutated in the
\* scope that was current
MutatedBefore ==
  /\ last.pointer_stack_top >= 1
  /\ last.index \in DOMAIN last.scopes[last.pointer_stack_top].first

\* C9: the undo log never holds two entries for one (logical index, level);
\* mutating a cell again in the same open scope appends nothing, and the
\* first mutation of a cell at a level appends at most the one entry of that
\* cell and level.
C9_OneEntryPerCellAndLevel ==
  /\ \A j, k \in 1 .. Len(undo_log) :
       ( /\ undo_log[j].logical_index = undo_log[k].logical_index
         /\ undo_log[j].stack_level = undo_log[k].stack_level ) => j = k
  /\ Mutated =>
       IF MutatedBefore
       THEN undo_log = last.undo_log
       ELSE \/ undo_log = last.undo_log
            \/ /\ Len(undo_log) = Len(last.undo_log) + 1
               /\ SubSeq(undo_log, 1, Len(last.undo_log)) = last.undo_log
               /\ undo_log[Len(undo_log)].logical_index = last.index
               /\ undo_log[Len(undo_log)].stack_level = last.pointer_stack_top

\* the value the oldest entry of (index, level) in log holds
OldestValue(log, index, level) ==
  LET k == CHOOSE k \in 1 .. Len(log) :
             /\ log[k].logical_index = index /\ log[k].stack_level = level
             /\ \A j \in 1 .. (k - 1) :
                  ~(log[j].logical_index = index /\ log[j].stack_level = level)
  IN log[k].original_value

\* log without its entries tagged level
WithoutLevel(log, level) == SelectSeq(log, LAMBDA e : e.stack_level # level)

\* C10: closing a scope of level L removes from the undo log exactly the
\* entries tagged L, each original value being stored back newest first (so
\* that a cell ends with the value of its oldest entry), with the scope
\* stack popped from L to L - 1; no entry of level >= L remains and the
\* entries of lower levels are untouched in count, order and content.
C10_CloseRemovesExactlyItsLevel ==
  Completed("}") =>
    /\ pointer_stack_top = last.pointer_stack_top - 1
    /\ undo_log = WithoutLevel(last.undo_log, last.pointer_stack_top)
    /\ \A k \in 1 .. Len(undo_log) :
         undo_log[k].stack_level < last.pointer_stack_top
    /\ \A i \in LogicalIndices(tape) :
         CellAt(tape, i) =
           IF HasEntry(last.undo_log, i, last.pointer_stack_top)
           THEN OldestValue(last.undo_log, i, last.pointer_stack_top)
           ELSE CellAt(last.tape, i)

\* a scope with two entries has been closed inside a scope that keeps its own
C10_Witness ==
  /\ Completed("}")
  /\ Len(last.undo_log) >= Len(undo_log) + 2
  /\ Len(undo_log) >= 1
  /\ tape # last.tape

\* C11: "{" pushes one scope entry whose position is a copy of the current
\* position and makes it the active one; the undo log, every tape cell and
\* the entries of the enclosing scopes are as they were.
C11_OpenPushesCopy ==
  Completed("{") =>
    /\ pointer_stack_top = last.pointer_stack_top + 1
    /\ Index = last.index
    /\ undo_log = last.undo_log
    /\ tape = last.tape
    /\ \A k \in 0 .. last.pointer_stack_top :
         pointer_stack[k] = last.pointer_stack[k]

\* a scope has been opened inside another, away from the origin, with
\* entries in the log
C11_Witness ==
  /\ Completed("{")
  /\ last.pointer_stack_top >= 1
  /\ last.index # 0
  /\ Len(last.undo_log) >= 1

\* C12: a "{" executed with the pointer stack at its maximum (all
\* MAX_TEMP_DEPTH entries in use) makes run fail with the pointer stack
\* overflow error, the undo log, the pointer stack and the tape being exactly
\* as before the "{".
C12_OverflowLeavesStateIntact ==
  (last.cmd = "{" /\ last.pointer_stack_top = MAX_TEMP_DEPTH - 1) =>
    /\ pc = "exit"
    /\ status = "pointer_stack_overflow"
    /\ undo_log = last.undo_log
    /\ pointer_stack = last.pointer_stack
    /\ pointer_stack_top = last.pointer_stack_top
    /\ tape = last.tape

\* run has failed on a "{" with entries in the log and cells mutated
C12_Witness ==
  /\ status = "pointer_stack_overflow"
  /\ last.cmd = "{"
  /\ Len(undo_log) >= 2
  /\ tape # InitTape(INITIAL_TAPE_SIZE)

\* a "}" is only ever fetched inside a scope: build_maps accepts a program
\* only if every "}" closes a "{", and the jumps of a well-nested program
\* skip or repeat whole scopes
CloseBraceInsideScope == Fetch("}") => pointer_stack_top >= 1

\* C14: a ">" or "<", growing the tape or not, leaves every cell with its
\* value at its logical index and the cells it adds hold zero, so that a byte
\* read at a logical index is the byte last stored there, and zero where
\* nothing was stored.
C14_MovesKeepCells ==
  /\ (last.cmd \in {">", "<"} /\ pc = "run") =>
       /\ \A i \in LogicalIndices(last.tape) :
            InTape(tape, i) /\ CellAt(tape, i) = CellAt(last.tape, i)
       /\ \A i \in LogicalIndices(tape) \ LogicalIndices(last.tape) :
            CellAt(tape, i) = 0
  /\ Completed(".") =>
       output[Len(output)] = CellAt(last.tape, last.index)

\* run has left its loop and returned
Returned == pc = "exit" /\ last.cmd = "exit"

\* C15: whenever ip reaches the code length with no runtime error, run
\* reports success, however many instructions were executed.
C15_EndOfCodeIsSuccess ==
  (Returned /\ ip >= Len(code)) => status = "ok"

\* the instruction count never exceeds the budget, and a run that leaves
\* the loop before the end of the code reports the failure
WithinBudget ==
  /\ instruction_count <= MAX_INSTRUCTIONS
  /\ (Returned /\ ip < Len(code)) =>
       (status = "limit" /\ instruction_count = MAX_INSTRUCTIONS)

\* the number of steps main can still take: the iterations the budget
\* allows, and the steps around the loop
StepsLeft(p, count) ==
  CASE p = "create"  -> MAX_INSTRUCTIONS + 3
    [] p = "created" -> MAX_INSTRUCTIONS + 2
    [] p = "run"     -> MAX_INSTRUCTIONS + 1 - count
    [] p = "exit"    -> 0

\* main has a step to take: create_interpreter, the call of run, an
\* iteration of the loop, or the end of the loop
CanStep ==
  \/ pc \in {"create", "created"}
  \/ /\ pc = "run"
     /\ \/ ~(ip < Len(code) /\ instruction_count < MAX_INSTRUCTIONS)
        \/ CodeAt(code, ip) \in Commands

\* C16: every run terminates and never executes more than MAX_INSTRUCTIONS
\* instructions; a run whose budget is exhausted before ip reaches the code
\* length stops and reports failure, never success, as for "+[]".
\* Termination: every step lowers StepsLeft, which is never negative, and
\* until main has the outcome there is a command to execute or the loop
\* to leave.
C16_RunTerminatesWithinBudget ==
  /\ []WithinBudget
  /\ [](StepsLeft(pc, instruction_count) >= 0)
  /\ [](pc # "exit" => CanStep)
  /\ [][StepsLeft(pc', instruction_count') < StepsLeft(pc, instruction_count)]_vars

\* "+[]" has been stopped by the budget
C16_Witness ==
  /\ code = <<"+", "[", "]">>
  /\ Returned
  /\ status = "limit"
  /\ instruction_count = MAX_INSTRUCTIONS
  /\ ip < Len(code)

\* log_undo_entry had an entry to append for the last instruction and
\* appended none: it hit the capacity limit or its realloc failed
RecorderFailed ==
  /\ last.cmd \in {"+", "-", ","}
  /\ last.ensured # {}
  /\ last.pointer_stack_top >= 1
  /\ ~AlreadyLogged(last.undo_log, last.index, last.pointer_stack_top)
  /\ undo_log = last.undo_log

\* C17: every error detected while a program runs ends the run with a
\* failure, no cell being modified and no instruction executed after it: the
\* errors run detects itself, and the failures inside log_undo_entry.
C17_ErrorsPropagate ==
  /\ status \in {"capacity", "write", "pointer_stack_overflow",
                 "pointer_stack_underflow", "invalid_jump"} =>
       (pc = "exit" /\ SameCells(last.tape, tape))
  /\ RecorderFailed =>
       (pc = "exit" /\ status \notin {"none", "ok"} /\ SameCells(last.tape, tape))

\* C18: whenever run returns success only the root scope is open and the
\* undo log is empty.
C18_SuccessLeavesRootOnly ==
  status = "ok" => (pointer_stack_top = 0 /\ undo_log = <<>>)

\* run has returned success after scopes that logged entries
C18_Witness ==
  /\ status = "ok"
  /\ \E i \in 1 .. Len(code) : code[i] = "{"
  /\ \E i \in 1 .. Len(code) : code[i] = "+"
  /\ Len(last.scopes) = 0
  /\ instruction_count >= 5

\* the byte the last instruction found in the current cell
Tested == CellAt(last.tape, last.index)

\* the last instruction was a bracket that took its jump: "[" on zero or
\* "]" on non-zero, the current cell being a cell of the array
JumpTaken ==
  /\ last.cmd \in {"[", "]"}
  /\ pc = "run"
  /\ InTape(last.tape, last.index)
  /\ \/ last.cmd = "[" /\ Tested = 0
     \/ last.cmd = "]" /\ Tested # 0

\* the last instruction went on to the next position: any command but a
\* bracket, or a bracket that did not take its jump
FellThrough ==
  /\ last.cmd \notin {"none", "exit"}
  /\ pc = "run"
  /\ last.cmd \in {"[", "]"} =>
       /\ InTape(last.tape, last.index)
       /\ \/ last.cmd = "[" /\ Tested # 0
          \/ last.cmd = "]" /\ Tested = 0

\* C19: "[" on a zero cell goes on behind its matching "]", the body being
\* skipped, and on a non-zero cell falls through into the body; "]" on a
\* non-zero cell goes back to the first instruction of the body of its
\* matching "[", and on a zero cell falls through; neither changes a cell,
\* the position, the scope stack or the undo log.
C19_BracketsTestAndJump ==
  (last.cmd \in {"[", "]"} /\ pc = "run") =>
    /\ tape = last.tape
    /\ pointer_stack = last.pointer_stack
    /\ pointer_stack_top = last.pointer_stack_top
    /\ undo_log = last.undo_log
    /\ InTape(last.tape, last.index) =>
         /\ (last.cmd = "[" /\ Tested = 0) =>
              /\ CodeAt(code, ip - 1) = "]"
              /\ ip - 1 = Partner(code, last.ip, "[", "]")
         /\ (last.cmd = "[" /\ Tested # 0) => ip = last.ip + 1
         /\ (last.cmd = "]" /\ Tested # 0) =>
              /\ CodeAt(code, ip - 1) = "["
              /\ Partner(code, ip - 1, "[", "]") = last.ip
         /\ (last.cmd = "]" /\ Tested = 0) => ip = last.ip + 1

\* a "]" has sent control back into its loop, inside a scope with entries
C19_Witness ==
  /\ JumpTaken
  /\ last.cmd = "]"
  /\ ip <= last.ip
  /\ pointer_stack_top >= 1
  /\ Len(undo_log) >= 1

\* C20: after a taken jump ip equals the partner bracket's position, so that
\* the partner is the next instruction executed; only the instructions that
\* do not jump advance ip by one.
C20_JumpLandsOnPartner ==
  /\ JumpTaken => ip = bracket_map[last.ip]
  /\ FellThrough => ip = last.ip + 1

\* C20 as the code has it: a taken jump sets ip to the partner's position
\* and the loop's ip++ advances it as after every instruction, so that the
\* instruction behind the partner bracket is the next one executed and the
\* partner is not tested again.
C20_JumpLandsBehindPartner ==
  /\ JumpTaken => ip = bracket_map[last.ip] + 1
  /\ FellThrough => ip = last.ip + 1
  /\ (pc = "run" /\ last.cmd \notin {"none", "exit"}) =>
       ip \in {last.ip + 1, bracket_map[last.ip] + 1}

\* a "[" on a zero cell has skipped a loop that has instructions behind it
C20_Witness ==
  /\ JumpTaken
  /\ last.cmd = "["
  /\ ip = bracket_map[last.ip] + 1
  /\ ip > last.ip + 2
  /\ ip < Len(code)

(***************************************************************************)
(* A reference interpreter of standard Brainfuck: 8-bit wrapping cells on  *)
(* a zero-initialised tape unbounded in both directions, "," storing 0 at  *)
(* the end of the input.                                                   *)
(***************************************************************************)
StandardCommands == {"+", "-", ">", "<", ".", ",", "[", "]"}

\* whether c uses the standard commands only
IsStandard(c) == \A i \in 1 .. Len(c) : c[i] \in StandardCommands

\* the "[" that the "]" at position j closes
Opener(c, j) ==
  CHOOSE i \in 0 .. (j - 1) :
    CodeAt(c, i) = "[" /\ Partner(c, i, "[", "]") = j

\* the value of the reference cell at index i
RefCell(cells, i) == IF i \in DOMAIN cells THEN cells[i] ELSE 0

\* the reference tape with v stored at index i
RefStore(cells, i, v) == (i :> v) @@ cells

\* the next input item of the reference: what the k-th read delivered
RefInput(inp, k) == IF k <= Len(inp) THEN inp[k] ELSE EOF

RefInit == [ip |-> 0, ptr |-> 0, cells |-> <<>>, out |-> <<>>, taken |-> 0, lo |-> 0]

\* one instruction of the reference
RefStep(c, inp, r) ==
  CASE CodeAt(c, r.ip) = ">" ->
         [r EXCEPT !.ptr = r.ptr + 1, !.ip = r.ip + 1]
    [] CodeAt(c, r.ip) = "<" ->
         [r EXCEPT !.ptr = r.ptr - 1, !.ip = r.ip + 1,
                   !.lo = IF r.ptr - 1 < r.lo THEN r.ptr - 1 ELSE r.lo]
    [] CodeAt(c, r.ip) = "+" ->
         [r EXCEPT !.cells = RefStore(r.cells, r.ptr,
                               (RefCell(r.cells, r.ptr) + 1) % 256),
                   !.ip = r.ip + 1]
    [] CodeAt(c, r.ip) = "-" ->
         [r EXCEPT !.cells = RefStore(r.cells, r.ptr,
                               (RefCell(r.cells, r.ptr) + 255) % 256),
                   !.ip = r.ip + 1]
    [] CodeAt(c, r.ip) = "." ->
         [r EXCEPT !.out = Append(r.out, RefCell(r.cells, r.ptr)),
                   !.ip = r.ip + 1]
    [] CodeAt(c, r.ip) = "," ->
         [r EXCEPT !.cells = RefStore(r.cells, r.ptr,
                               IF RefInput(inp, r.taken + 1) = EOF THEN 0
                               ELSE RefInput(inp, r.taken + 1)),
                   !.taken = r.taken + 1,
                   !.ip = r.ip + 1]
    [] CodeAt(c, r.ip) = "[" ->
         [r EXCEPT !.ip = IF RefCell(r.cells, r.ptr) = 0
                          THEN Partner(c, r.ip, "[", "]") + 1
                          ELSE r.ip + 1]
    [] CodeAt(c, r.ip) = "]" ->
         [r EXCEPT !.ip = IF RefCell(r.cells, r.ptr) # 0
                          THEN Opener(c, r.ip) + 1
                          ELSE r.ip + 1]

\* the reference run of c on the input inp, for at most fuel instructions
RECURSIVE RefRun(_, _, _, _)
RefRun(c, inp, r, fuel) ==
  IF r.ip >= Len(c) \/ fuel = 0 THEN r
  ELSE RefRun(c, inp, RefStep(c, inp, r), fuel - 1)

\* the engine has ended as the reference run r: same output, same cells
SameAsReference(r) ==
  /\ r.ip >= Len(code)
  /\ output = r.out
  /\ \A i \in LogicalIndices(tape) \cup DOMAIN r.cells :
       CellAt(tape, i) = RefCell(r.cells, i)

\* C21: for a program of the eight standard commands, a run that ends
\* normally has produced the output and left the cells that the reference
\* interpreter produces on the same input.
C21_MatchesReference ==
  (status = "ok" /\ IsStandard(code)) =>
    SameAsReference(RefRun(code, consumed, RefInit, MAX_INSTRUCTIONS))

\* the reference run r stays on the cells the initial array holds on the left
StaysRightOf(r, leftmost) == r.lo >= leftmost

\* the equivalence on the programs that never move left of the array
MatchesReferenceInsideArray ==
  ( /\ status = "ok"
    /\ IsStandard(code)
    /\ StaysRightOf(RefRun(code, consumed, RefInit, MAX_INSTRUCTIONS),
                    0 - tape.zero_offset) ) =>
    SameAsReference(RefRun(code, consumed, RefInit, MAX_INSTRUCTIONS))

\* the loop program of the jump-table test
DoublingLoop == <<"+", "+", "[", ">", "+", "+", "<", "-", "]">>

\* C22 as stated: a run of ++[>++<-] ends normally and has written four
\* characters of output.
C22_LoopWritesFourCharacters ==
  (code = DoublingLoop /\ Returned) =>
    (status = "ok" /\ Len(output) = 4)

\* C22: a run of ++[>++<-] ends normally, writes no output (the program
\* holds no "."), and leaves 0 in cell 0 and 4 in cell 1, as the reference
\* interpreter does.
C22_LoopDoublesSilently ==
  (code = DoublingLoop /\ Returned) =>
    /\ status = "ok"
    /\ output = <<>>
    /\ CellAt(tape, 0) = 0
    /\ CellAt(tape, 1) = 4
    /\ SameAsReference(RefRun(code, consumed, RefInit, MAX_INSTRUCTIONS))

C22_Witness ==
  /\ code = DoublingLoop
  /\ Returned
  /\ status = "ok"
  /\ CellAt(tape, 1) = 4

\* the last iteration executed "," and its fgetc found the input exhausted
ReadAtEndOfInput == last.cmd = "," /\ last.ensured # {} /\ eof

\* C23: a "," that finds the input exhausted stores 0 in the current cell
\* and the run goes on without an error, at the first such "," and at
\* every later one.
C23_CommaAtEndStoresZero ==
  ReadAtEndOfInput =>
    (pc = "run" /\ InTape(tape, Index) /\ CellAt(tape, Index) = 0)

\* the last iteration executed cmd on a cell ensure_tape_capacity accepted
Applied(cmd) == last.cmd = cmd /\ last.ensured # {}

\* the current cell went from the value it held to v
Replaced(v) ==
  /\ pc = "run"
  /\ InTape(tape, last.index)
  /\ CellAt(tape, last.index) = v

\* C24: "+" replaces the value v of the current cell by (v + 1) mod 256 and
\* "-" by (v - 1) mod 256, and every cell of the tape holds a value in
\* 0 .. 255 in every reachable state.
C24_WrappingArithmetic ==
  /\ \A p \in DOMAIN tape.cells : tape.cells[p] \in 0 .. 255
  /\ Applied("+") => Replaced((CellAt(last.tape, last.index) + 1) % 256)
  /\ Applied("-") => Replaced((CellAt(last.tape, last.index) - 1) % 256)

\* the index the pointer of the level held when the level was entered
StartIndex(level) == IF level = 0 THEN 0 ELSE scopes[level].index

\* the ">" less the "<" executed with success at the level since then
NetDisplacement(level) == moves[level].right - moves[level].left

\* C25: at every level of the pointer stack in use, the logical index equals
\* the index at which the level was entered plus the number of ">" less the
\* number of "<" executed with success in it; in the root scope that is the
\* net displacement from 0.
C25_IndexIsNetDisplacement ==
  pc = "run" =>
    /\ \A level \in 0 .. pointer_stack_top :
         pointer_stack[level] = StartIndex(level) + NetDisplacement(level)
    /\ pointer_stack_top = 0 => Index = NetDisplacement(0)

C25_Witness ==
  /\ pc = "run"
  /\ pointer_stack_top = 1
  /\ moves[0].left >= 1
  /\ moves[1].left >= 1
  /\ moves[1].right >= 2
  /\ Index = StartIndex(1) + 1
  /\ StartIndex(1) # 0

\* what is left of the brackets and braces of positions 0 .. i of c once
\* every opener directly followed by its closer is deleted
Pending(c, i) == Reduced(Nesting(SubSeq(c, 1, i + 1)))

\* the scan cannot get past position i: a closer there found no opener of
\* its family to close, or an opener there exceeds the nesting limit
FailsAt(c, i) ==
  \/ \E k \in 1 .. Len(Pending(c, i)) : Pending(c, i)[k] \in {"]", "}"}
  \/ Len(Pending(c, i)) > MAX_NESTING_DEPTH

\* the opener at position pos is never closed
Unclosed(c, pos) ==
  /\ CodeAt(c, pos) \in {"[", "{"}
  /\ \A j \in (pos + 1) .. (Len(c) - 1) : ~WellNested(SubSeq(c, pos + 1, j + 1))

\* pos is the position of the offending symbol of c
Offending(c, pos) ==
  /\ pos \in 0 .. (Len(c) - 1)
  /\ IF \E i \in 0 .. (Len(c) - 1) : FailsAt(c, i)
     THEN /\ FailsAt(c, pos)
          /\ \A i \in 0 .. (pos - 1) : ~FailsAt(c, i)
     ELSE Unclosed(c, pos)

\* C26: when build_maps rejects a program, the position it reports is the
\* position of the offending symbol: the first position at which the scan
\* fails (a closer with no opener of its family on top of the stack), or,
\* when only openers are left unclosed, the position of an opener that has
\* no partner.
C26_ReportedPositionOffends ==
  (Built /\ status = "rejected") =>
    Offending(code, BuildMaps(code).error_position)

C26_Witness ==
  /\ status = "rejected"
  /\ code = <<"[", "{", "]", "}">>
  /\ BuildMaps(code).error_position = 2
  /\ BuildMaps(<<"[", "[", "]">>).error_position = 0
  /\ BuildMaps(<<"+", "}", "[">>).error_position = 1

\* the characters of the command alphabet
CommandAlphabet == {"+", "-", ">", "<", ".", ",", "[", "]", "{", "}"}

\* position i of the text lies in a comment: behind a "#" of its own line
InsideComment(text, i) ==
  \E k \in 1 .. (i - 1) :
    text[k] = "#" /\ \A m \in (k + 1) .. (i - 1) : text[m] # "\n"

\* the positions of the command characters of the text outside comments
CommandPositions(text) ==
  {i \in 1 .. Len(text) : text[i] \in CommandAlphabet /\ ~InsideComment(text, i)}

\* the n-th of the positions P, in ascending order
NthOf(P, n) == CHOOSE i \in P : Cardinality({k \in P : k < i}) = n - 1

\* the characters at the positions P of the text, in the order of the text
Subsequence(text, P) == [n \in 1 .. Cardinality(P) |-> text[NthOf(P, n)]]

\* C27: filter_code returns the subsequence, in the original order, of the
\* characters of its input that are command characters outside comments;
\* the result holds command characters only, and filtering it again
\* returns it unchanged.
C27_FilterKeepsCommandsOutsideComments ==
  pc # "create" =>
    /\ code = Subsequence(source, CommandPositions(source))
    /\ \A i \in 1 .. Len(code) : code[i] \in CommandAlphabet
    /\ FilterCode(code) = code

C27_Witness ==
  /\ pc # "create"
  /\ source = <<"+", "#", "]", "x", "\n", "[", "#", "\n", "]">>
  /\ code = <<"+", "[", "]">>

\* the text without its comments: every "#" and what follows it on its
\* line is taken out
StripComments(text) ==
  Subsequence(text, {i \in 1 .. Len(text) :
                       text[i] # "#" /\ ~InsideComment(text, i)})

\* the linked-list engine has left its loop, or has rejected the code
Ended == list_pc \in {"finished", "rejected"}

\* the machine as the run left it: at the end of the loop, before the
\* cleanup
AtEnd == IF list_pc = "finished" THEN list_last.before ELSE Machine

\* the runs a and r agree on acceptance, output and final tape
SameOutcome(a, r) ==
  /\ (a.pc = "rejected") <=> (r.pc = "rejected")
  /\ a.pc # "rejected" =>
       /\ ~Looping(r)
       /\ r.state.error_flag = a.state.error_flag
       /\ r.io.out = a.io.out
       /\ r.memory = a.memory

\* C28: a run of a source ends as the run of the same source without its
\* comments does on the same input: accepted alike, with the same output
\* and the same final tape, whatever the comments hold.
C28_CommentsHaveNoEffect ==
  Ended => SameOutcome(AtEnd, RunOf(StripComments(state.code), io.consumed))

\* the last iteration executed a "*" while a block was open: the closing
\* "*" of the block
ClosedBlock == list_last.cmd = "*" /\ list_last.blocks # <<>>

\* the node at which the innermost block open before the last iteration
\* was entered
EnteredAt == list_last.blocks[Len(list_last.blocks)]

\* C29: after the closing "*" of a block the run goes on with the active
\* pointer at the node it designated immediately before the opening "*",
\* and with every cell holding the value it held before the closing "*":
\* what was written inside the block is kept.
C29_StarBlockRestoresPointerOnly ==
  ClosedBlock =>
    /\ list_pc = "exec"
    /\ ~state.error_flag
    /\ Len(blocks) = Len(list_last.blocks) - 1
    /\ state.active_pointer.current = EnteredAt
    /\ memory = list_last.before.memory

\* the machine b after an iteration that executes, where b stands, the
\* command whose code the current cell of b holds; after an iteration that
\* executes nothing when the cell holds no command's code
CellCommandExecuted(b, alloc_ok, ch) ==
  Advance(IF CommandOf(Data(b)) = "none" THEN b
          ELSE Dispatch(b, CommandOf(Data(b)), alloc_ok, ch))

\* C30: an iteration on "!" leaves the machine as the execution of the
\* command whose ASCII code the current cell holds leaves it, for each of
\* + - > < . , [ ] *, and leaves tape, pointer and control state alone for
\* every other value; ip has then advanced past the "!".
C30_InterpretExecutesCellCommand ==
  list_last.cmd = "!" =>
    \E alloc_ok \in BOOLEAN, ch \in CharCodes \cup {EOF} :
      Machine = CellCommandExecuted(list_last.before, alloc_ok, ch)

(***************************************************************************)
(* Growth of the tape (ensure_tape_capacity seen from run)                 *)
(***************************************************************************)
\* the call of the last iteration asked for an index left of the array
EnsuredLeftOfArray ==
  \E i \in last.ensured : pc = "run" /\ i < 0 - last.tape.zero_offset

\* the tape t2 is t1 grown to the left by shift: the content moved right by
\* shift and everything else is zero
GrownLeftBy(t1, t2, shift) ==
  /\ shift > 0
  /\ t2.zero_offset = t1.zero_offset + shift
  /\ \A p \in 0 .. (t2.size - 1) :
       t2.cells[p] = IF p >= shift /\ p < shift + t1.size
                     THEN t1.cells[p - shift] ELSE 0

\* C31: a successful ensure_tape_capacity for an index below -zero_offset
\* has grown the tape: the size has doubled, the content is shifted right,
\* zero_offset has increased by the shift and the vacated left and right
\* regions are zero.
C31_LeftGrowthShiftsContent ==
  EnsuredLeftOfArray =>
    /\ tape.size = 2 * last.tape.size
    /\ \E shift \in 1 .. tape.size : GrownLeftBy(last.tape, tape, shift)

\* 2^k
RECURSIVE Pow2(_)
Pow2(k) == IF k = 0 THEN 1 ELSE 2 * Pow2(k - 1)

\* new_size is old_size doubled k times, for the smallest k >= 1 that puts
\* the physical index required inside the array
SmallestDoubling(old_size, new_size, required) ==
  \E k \in 1 .. new_size :
    /\ new_size = old_size * Pow2(k)
    /\ required < new_size
    /\ k > 1 => required >= old_size * Pow2(k - 1)

\* the tape t2 is t1 grown to the right: zero_offset and the cells of t1 are
\* kept and the added cells are zero
GrownRight(t1, t2) ==
  /\ t2.zero_offset = t1.zero_offset
  /\ \A p \in 0 .. (t2.size - 1) :
       t2.cells[p] = IF p < t1.size THEN t1.cells[p] ELSE 0

\* the logical indices a call may ask for that lie right of the array of t
RightOfArray(t) == (t.size - t.zero_offset) .. (MaxTapeSize - t.zero_offset)

\* the call for index on t ended with e: if it succeeded, e.tape is t grown
\* to the right by the smallest doubling
GrowsRight(t, index, e) ==
  e.ret = 0 =>
    /\ SmallestDoubling(t.size, e.tape.size, t.zero_offset + index)
    /\ GrownRight(t, e.tape)

\* the last iteration called ensure_tape_capacity, with success, for an
\* index right of the array
EnsuredRightOfArray ==
  \E i \in last.ensured :
    pc = "run" /\ last.tape.zero_offset + i >= last.tape.size

\* C32: a successful ensure_tape_capacity for an index with zero_offset +
\* index >= size makes the new size the old size times 2^k for the smallest
\* k >= 1 with zero_offset + index < new size, leaves zero_offset unchanged,
\* keeps the existing cells and zeroes the added ones.
C32_RightGrowthDoublesAndKeeps ==
  /\ pc \in {"created", "run"} =>
       \A index \in RightOfArray(tape) :
         GrowsRight(tape, index, EnsureTapeCapacity(tape, index, TRUE))
  /\ EnsuredRightOfArray =>
       \A i \in last.ensured :
         /\ SmallestDoubling(last.tape.size, tape.size,
                             last.tape.zero_offset + i)
         /\ GrownRight(last.tape, tape)

\* the run has just grown, to the right, a tape holding a written cell, a
\* tape on which a call further right needs two doublings
C32_Witness ==
  /\ EnsuredRightOfArray
  /\ tape.size = 2 * last.tape.size
  /\ \E p \in 0 .. (last.tape.size - 1) : last.tape.cells[p] # 0
  /\ \E index \in RightOfArray(last.tape) :
       /\ EnsureTapeCapacity(last.tape, index, TRUE).ret = 0
       /\ EnsureTapeCapacity(last.tape, index, TRUE).tape.size
            = 4 * last.tape.size

\* the call for index on t ended with e: it succeeded and e.tape is t
Untouched(t, e) == e.ret = 0 /\ e.tape = t

\* C33: ensure_tape_capacity succeeds and leaves the tape unchanged
\* whenever 0 <= zero_offset + index < size, the exact boundaries
\* index = -zero_offset and index = size - zero_offset - 1 included.
C33_InsideArrayLeavesTapeUnchanged ==
  /\ pc \in {"created", "run"} =>
       \A index \in LogicalIndices(tape) : \A alloc_ok \in BOOLEAN :
         Untouched(tape, EnsureTapeCapacity(tape, index, alloc_ok))
  /\ \A i \in last.ensured :
       (last.cmd \in {">", "<"} /\ InTape(last.tape, i)) => tape = last.tape

\* the run has just moved onto the first cell of an array that holds a
\* written cell
C33_Witness ==
  /\ pc = "run"
  /\ last.cmd = "<"
  /\ (0 - tape.zero_offset) \in last.ensured
  /\ \E p \in 0 .. (tape.size - 1) : tape.cells[p] # 0

\* init_tape has succeeded: the interpreter holds a tape
TapeCreated ==
  \/ pc \in {"created", "run"}
  \/ pc = "exit" /\ status \notin {"create_failed", "rejected"}

\* the tape as the interpreter is created with it
FreshTape ==
  /\ tape.size = INITIAL_TAPE_SIZE
  /\ tape.zero_offset = INITIAL_TAPE_SIZE \div 2
  /\ \A p \in 0 .. (tape.size - 1) : tape.cells[p] = 0

\* a step neither shrinks the array nor lowers zero_offset
TapeNeverShrinks ==
  TapeCreated => /\ tape'.size >= tape.size
                 /\ tape'.zero_offset >= tape.zero_offset

\* C34: in every reachable state with a tape, 0 <= zero_offset < size; the
\* tape starts at the initial size with zero_offset at its midpoint and all
\* cells zero; neither size nor zero_offset ever decreases during a run.
C34_TapeShapeInvariant ==
  /\ [](TapeCreated => (0 <= tape.zero_offset /\ tape.zero_offset < tape.size))
  /\ [](pc = "created" => FreshTape)
  /\ [][TapeNeverShrinks]_vars

\* the run has grown the tape beyond its initial size
C34_Witness ==
  /\ pc = "run"
  /\ tape.size > INITIAL_TAPE_SIZE
  /\ tape.zero_offset = INITIAL_TAPE_SIZE \div 2

(***************************************************************************)
(* Scope depth                                                             *)
(***************************************************************************)
\* the positions before position that hold the character ch
PositionsBefore(c, position, ch) == {i \in 1 .. position : c[i] = ch}

\* the number of "{" that statically enclose position: those before it whose
\* "}" is not before it
EnclosingBraces(c, position) ==
  Cardinality(PositionsBefore(c, position, "{"))
    - Cardinality(PositionsBefore(c, position, "}"))

\* C35: for every program accepted by build_maps, at every step of run
\* pointer_stack_top equals the number of "{" that statically enclose the
\* current ip; so "}" is never executed at level 0 and pointer_stack_top is
\* 0 whenever ip reaches the code length.
C35_DepthIsStaticNesting ==
  pc = "run" =>
    /\ pointer_stack_top = EnclosingBraces(code, ip)
    /\ (ip < Len(code) /\ CodeAt(code, ip) = "}") => pointer_stack_top >= 1
    /\ ip >= Len(code) => pointer_stack_top = 0

\* a loop inside a scope has just jumped back
C35_Witness ==
  /\ pc = "run"
  /\ last.cmd = "]"
  /\ ip < last.ip
  /\ pointer_stack_top >= 1

(***************************************************************************)
(* Shape of the undo log                                                   *)
(***************************************************************************)
\* every entry carries a level between 1 and top
LevelsWithin(log, top) ==
  \A k \in 1 .. Len(log) : 1 <= log[k].stack_level /\ log[k].stack_level <= top

\* the levels do not decrease from the oldest entry to the newest
LevelsNonDecreasing(log) ==
  \A j, k \in 1 .. Len(log) : j < k => log[j].stack_level <= log[k].stack_level

\* the last iteration stored into a cell while only the root scope was open
RootMutation ==
  /\ Completed("+") \/ Completed("-") \/ Completed(",")
  /\ last.pointer_stack_top = 0

\* C36: in every reachable state of run every undo-log entry has a level
\* between 1 and pointer_stack_top, the levels are non-decreasing from the
\* oldest entry to the newest, and the log is empty whenever only the root
\* scope is open; a mutation made in the root scope is not logged, so
\* nothing can roll it back.
C36_UndoLogLevels ==
  pc = "run" =>
    /\ LevelsWithin(undo_log, pointer_stack_top)
    /\ LevelsNonDecreasing(undo_log)
    /\ pointer_stack_top = 0 => undo_log = <<>>
    /\ RootMutation => (last.undo_log = <<>> /\ undo_log = <<>>)

\* the log holds entries of two levels and the tape a written cell
C36_Witness ==
  /\ pc = "run"
  /\ \E j, k \in 1 .. Len(undo_log) :
       undo_log[j].stack_level < undo_log[k].stack_level
  /\ \E p \in 0 .. (tape.size - 1) : tape.cells[p] # 0

(***************************************************************************)
(* The depth limit of "{"                                                  *)
(***************************************************************************)
\* the last iteration executed "{" and pushed a scope
OpenBraceSucceeded ==
  /\ last.cmd = "{"
  /\ pc = "run"
  /\ pointer_stack_top = last.pointer_stack_top + 1

\* the last iteration executed "{" and run failed with the overflow error
OpenBraceOverflowed ==
  /\ last.cmd = "{"
  /\ pc = "exit"
  /\ status = "pointer_stack_overflow"

RaisesInvalidMapEntry(b, cmd) ==
  CASE cmd = "*" -> MapAt(b.state.star_map, b.state.ip) = 0
    [] cmd = "[" -> Data(b) = 0 /\ MapAt(b.state.bracket_map, b.state.ip) = 0
    [] cmd = "]" -> Data(b) # 0 /\ MapAt(b.state.bracket_map, b.state.ip) = 0
    [] OTHER -> FALSE

\* C38: for every program accepted by build_maps, executing "[", "]" or
\* "*" never raises the internal invalid-map-entry error, a pair whose
\* opener is at code position 0 included.
C38_NoInvalidMapEntry ==
  list_last.cmd \in {"[", "]", "*"} =>
    ~RaisesInvalidMapEntry(list_last.before, list_last.cmd)

\* the "*" the machine b is at is a closing one: its partner lies before it
AtClosingStar(b) ==
  /\ MapAt(b.state.star_map, b.state.ip) # 0
  /\ MapAt(b.state.star_map, b.state.ip) < b.state.ip

\* the run has left its loop without a run-time error
RanToEnd == list_pc = "finished" /\ ~AtEnd.state.error_flag

\* C39: every executed block entry is matched by exactly one later exit,
\* also when "*" blocks and "[" "]" loops are interleaved: a closing "*" is
\* never executed with the pointer stack empty, and at the end of a run the
\* pointer stack is empty and the active pointer is the main pointer.
C39_BlockEntriesAndExitsPair ==
  /\ (list_last.cmd = "*" /\ AtClosingStar(list_last.before)) =>
       list_last.before.state.pointer_stack # <<>>
  /\ RanToEnd =>
       /\ AtEnd.state.pointer_stack = <<>>
       /\ AtEnd.state.active_pointer.main

(***************************************************************************)
(* The parenthesis engine: "(" ... ")" blocks                              *)
(***************************************************************************)
\* the last iteration executed the ")" of a block and the loop goes on
ClosedParen == paren_last.cmd = ")" /\ paren_pc = "run"

\* the state in which the "(" of the block just closed was executed
OpenedAt == paren_last.open_parens[Len(paren_last.open_parens)]

\* C40: after a "(" ... ")" block the active pointer designates the same
\* cell as before the "(", the cell values written inside the block
\* persist (the ")" changes no cell), and the pointer stack is back at the
\* depth it had before the "(".
C40_ParenBlockRestoresPointerOnly ==
  ClosedParen =>
    /\ paren_last.open_parens # <<>>
    /\ ActiveNode(ParenNow) = OpenedAt.node
    /\ Len(interp.pointer_stack) = OpenedAt.depth
    /\ nodes = paren_last.before.nodes

\* a block has just been closed in which the temporary pointer had moved
\* away and a cell had been written
C40_Witness ==
  /\ ClosedParen
  /\ ActiveNode(paren_last.before) # ActiveNode(ParenNow)
  /\ nodes # OpenedAt.nodes
  /\ \E p \in DOMAIN OpenedAt.nodes : nodes[p] # OpenedAt.nodes[p]

=============================================================================
